---- MODULE Spec2Model ----
(***************************************************************************)
(* The joust engine of OpenRiddle: stepJoust and the functions it calls    *)
(* (services/agent-joust-server.mjs) over the store                        *)
(* (services/agent-joust-db-postgres.mjs), for one contest.                *)
(*                                                                         *)
(* A text is abstracted to what the engine reads of it: its length, the    *)
(* position of its first URL-like substring (0: none), the position of the *)
(* first occurrence of the required token (0: none), and whether it is the *)
(* engine's literal forfeit text.                                          *)
(***************************************************************************)
EXTENDS Integers, Sequences, FiniteSets, TLC

(* ------------------------------ bounds -------------------------------- *)
\* aborted advance calls (a round callback that throws) in one behaviour
MaxAborts == 1
\* advance calls made after the contest is done
MaxDoneCalls == 1
\* contests created one after the other in one behaviour
MaxJousts == 2
\* advance requests begun in one behaviour of the overlapping specification
MaxRaceCalls == 3
\* the largest tribe delta applied in the specification of the transfer
MaxDelta == 100

(* ------------------------- program constants --------------------------- *)
R1MaxChars == 240
R2MaxChars == 420
\* '#' plus joust.id.slice(0, 5)
TokenLen == 6
\* the shortest text hasLink matches: 'www.'
LinkLen == 4
\* ' (forfeit)' after the token in round 1, '(forfeit)' in round 2
R1ForfeitTail == 10
R2ForfeitLen == 9

(* ------------------------------ universe ------------------------------- *)
Tribes == {"t1", "t2", "t3"}
Agents == {"a1", "a2", "a3", "a4"}
States == <<"draft", "round1", "round2", "vote", "done">>
Rounds == {"round1", "round2"}
None == "none"

\* tribes.leader_agent_id, set by createTribe and never updated
leaderAgentId == [t \in Tribes |-> CASE t = "t1" -> "a1" [] t = "t2" -> "a2" [] OTHER -> "a3"]

\* db.listAgents: ORDER BY infamy DESC, created_at DESC; every agent is
\* registered with infamy 100, so before resolution the order is by creation
listAgents == <<"a4", "a3", "a2", "a1">>

(* -------------------------------- texts -------------------------------- *)
Text(n, l, k) == [len |-> n, link |-> l, token |-> k, lit |-> "reply"]
EmptyText == Text(0, 0, 0)

\* clampText(s, maxLen): s.slice(0, maxLen); a substring survives the cut
\* only if it ends within maxLen
clampText(s, maxLen) ==
  IF s.len <= maxLen THEN s
  ELSE [s EXCEPT !.len = maxLen,
                 !.link = IF s.link > 0 /\ s.link + LinkLen - 1 <= maxLen THEN s.link ELSE 0,
                 !.token = IF s.token > 0 /\ s.token + TokenLen - 1 <= maxLen THEN s.token ELSE 0]

\* hasLink(s): /https?:\/\/|www\./i.test(s)
hasLink(s) == s.link > 0

\* msg.includes(requiredToken)
includesToken(s) == s.token > 0

\* `${requiredToken} ${msg}`
prefixToken(s) ==
  [s EXCEPT !.len = s.len + TokenLen + 1,
            !.link = IF s.link > 0 THEN s.link + TokenLen + 1 ELSE 0,
            !.token = 1]

\* `${requiredToken} (forfeit)` and '(forfeit)'
R1Forfeit == [len |-> TokenLen + R1ForfeitTail, link |-> 0, token |-> 1, lit |-> "forfeit"]
R2Forfeit == [len |-> R2ForfeitLen, link |-> 0, token |-> 0, lit |-> "forfeit"]

VARIABLES
  joustState,   \* jousts.state
  tribeIds,     \* joust_tribes of the contest, in the order getJoust lists them
  posts,        \* round_posts: <<round, tribe>> -> [message, choice, agentId]
  votes,        \* votes: agent -> "A" | "B"
  results,      \* jousts.results_json: {} (null) or {the record}
  tribes,       \* tribes: tribe -> [infamy, wins, losses]
  agents,       \* agents: agent -> [infamy, wins, losses]
  members,      \* tribe_members: set of <<tribe, agent>>
  voterScope,   \* VOTER_SCOPE
  deciderMode,  \* WINNER_DECIDER_MODE
  apiKey,       \* OPENAI_API_KEY is set
  call,         \* the advance request in flight that is running
  other,        \* a second advance request in flight, waiting on its await
  ret,          \* the response to the last finished advance request
  lastCb,       \* the callback the last step issued
  hist          \* observation: counters and the pre-contest infamy

store == <<joustState, tribeIds, posts, votes, results, tribes, agents, members>>
config == <<voterScope, deciderMode, apiKey>>
vars == <<joustState, tribeIds, posts, votes, results, tribes, agents, members,
          voterScope, deciderMode, apiKey, call, other, ret, lastCb, hist>>

(* ------------------------------ the store ------------------------------ *)
Seq2Set(q) == {q[i] : i \in 1..Len(q)}

\* mutant of HasPost: the lookup never finds the row
HasPost_never(ps, r, t) == FALSE

\* db.getRoundPost(joust.id, tribeId, round): the row, or null
HasPost(ps, r, t) == <<r, t>> \in DOMAIN ps

\* mutant of upsertRoundPost: a row already stored is kept (DO NOTHING)
upsertRoundPost_keepFirst(ps, r, t, p) ==
  [k \in DOMAIN ps \cup {<<r, t>>} |-> IF k \in DOMAIN ps THEN ps[k] ELSE p]

\* db.upsertRoundPost: INSERT ... ON CONFLICT (joust_id, tribe_id, round) DO UPDATE
upsertRoundPost(ps, r, t, p) ==
  [k \in DOMAIN ps \cup {<<r, t>>} |-> IF k = <<r, t>> THEN p ELSE ps[k]]

\* db.upsertVote: INSERT ... ON CONFLICT (joust_id, agent_id) DO UPDATE
upsertVote(vs, a, v) ==
  [k \in DOMAIN vs \cup {a} |-> IF k = a THEN v ELSE vs[k]]

\* db.listTribeMemberIds(tribeId)
listTribeMemberIds(ms, t) == {a \in Agents : <<t, a>> \in ms}

\* mutant of getAgentTribeId: no agent is ever found in a tribe
getAgentTribeId_none(ms, a) == None

\* db.getAgentTribeId(agentId): SELECT tribe_id ... LIMIT 1, or null
getAgentTribeId(ms, a) ==
  IF \E t \in Tribes : <<t, a>> \in ms
  THEN CHOOSE t \in Tribes : <<t, a>> \in ms
  ELSE None

\* db.transferAgentToTribe: DELETE every membership of the agent, INSERT the new one
transferAgentToTribe(ms, a, target) ==
  {m \in ms : m[2] # a} \cup {<<target, a>>}

\* mutant of applyDelta: the delta is added twice
applyDelta_twice(row, delta, won) ==
  [row EXCEPT !.infamy = @ + 2 * delta,
              !.wins = @ + (IF won THEN 1 ELSE 0),
              !.losses = @ + (IF won THEN 0 ELSE 1)]

\* db.applyTribeDelta / db.applyAgentDelta: infamy + delta, wins or losses + 1
applyDelta(row, delta, won) ==
  [row EXCEPT !.infamy = @ + delta,
              !.wins = @ + (IF won THEN 1 ELSE 0),
              !.losses = @ + (IF won THEN 0 ELSE 1)]

\* a.tribeId.localeCompare(b.tribeId) < 0 on the tribe ids
idRank == [t \in Tribes |-> CASE t = "t1" -> 1 [] t = "t2" -> 2 [] OTHER -> 3]

(* ------------------------------- scoring ------------------------------- *)
\* tribeChoices[tribeId] = joust.rounds.round2?.posts?.[tribeId]?.choice || null
tribeChoice(ps, t) == IF HasPost(ps, "round2", t) THEN ps[<<"round2", t>>].choice ELSE None

\* mutant of Tally: a vote of the tribe's own member counts as an outside
\* vote, and as a snitch vote when its tribe's choice could differ
Tally_ownCounts(ps, ms, tids, t, a, v) ==
  LET choice == tribeChoice(ps, t)
      voterTribe == getAgentTribeId(ms, a)
      counts == choice # None /\ v = choice
  IN [outside |-> counts,
      neutral |-> counts /\ voterTribe = None,
      snitch  |-> counts /\ voterTribe # None]

\* mutant of Tally: a vote counts whichever option it names
Tally_anyVote(ps, ms, tids, t, a, v) ==
  LET choice == tribeChoice(ps, t)
      voterTribe == getAgentTribeId(ms, a)
      voterTribeChoice == IF voterTribe # None /\ voterTribe \in Seq2Set(tids)
                          THEN tribeChoice(ps, voterTribe) ELSE None
      counts == choice # None
  IN [outside |-> counts /\ voterTribe # t,
      neutral |-> counts /\ voterTribe = None,
      snitch  |-> counts /\ voterTribe # None /\ voterTribe # t
                  /\ voterTribeChoice # None /\ voterTribeChoice # choice]

\* one vote's contribution to one tribe's tallies (the inner loop body)
Tally(ps, ms, tids, t, a, v) ==
  LET choice == tribeChoice(ps, t)
      voterTribe == getAgentTribeId(ms, a)
      voterTribeChoice == IF voterTribe # None /\ voterTribe \in Seq2Set(tids)
                          THEN tribeChoice(ps, voterTribe) ELSE None
      counts == choice # None /\ v = choice
  IN [outside |-> counts /\ voterTribe # t,
      neutral |-> counts /\ voterTribe = None,
      snitch  |-> counts /\ voterTribe # None /\ voterTribe # t
                  /\ voterTribeChoice # None /\ voterTribeChoice # choice]

\* mutant of computePersuasion: a tie of the totals counts as a win of option A
computePersuasion_tieA(tids, ps, vs, ms) ==
  LET nA == Cardinality({a \in DOMAIN vs : vs[a] = "A"})
      nB == Cardinality({a \in DOMAIN vs : vs[a] = "B"})
      score(t) ==
        LET n == Cardinality({a \in DOMAIN vs : Tally(ps, ms, tids, t, a, vs[a]).neutral})
            s == Cardinality({a \in DOMAIN vs : Tally(ps, ms, tids, t, a, vs[a]).snitch})
            o == Cardinality({a \in DOMAIN vs : Tally(ps, ms, tids, t, a, vs[a]).outside})
        IN [neutralVotes |-> n, snitchVotes |-> s, outsideVotes |-> o,
            persuasionScore |-> n + 2 * s]
  IN [totals |-> [A |-> nA, B |-> nB],
      winningOption |-> IF nA >= nB THEN "A" ELSE "B",
      tribeChoices |-> [t \in Seq2Set(tids) |-> tribeChoice(ps, t)],
      tribeScores |-> [t \in Seq2Set(tids) |-> score(t)]]

computePersuasion(tids, ps, vs, ms) ==
  LET nA == Cardinality({a \in DOMAIN vs : vs[a] = "A"})
      nB == Cardinality({a \in DOMAIN vs : vs[a] = "B"})
      score(t) ==
        LET n == Cardinality({a \in DOMAIN vs : Tally(ps, ms, tids, t, a, vs[a]).neutral})
            s == Cardinality({a \in DOMAIN vs : Tally(ps, ms, tids, t, a, vs[a]).snitch})
            o == Cardinality({a \in DOMAIN vs : Tally(ps, ms, tids, t, a, vs[a]).outside})
        IN [neutralVotes |-> n, snitchVotes |-> s, outsideVotes |-> o,
            persuasionScore |-> n + 2 * s]
  IN [totals |-> [A |-> nA, B |-> nB],
      winningOption |-> IF nA = nB THEN None ELSE IF nA > nB THEN "A" ELSE "B",
      tribeChoices |-> [t \in Seq2Set(tids) |-> tribeChoice(ps, t)],
      tribeScores |-> [t \in Seq2Set(tids) |-> score(t)]]

(* ------------------------------ resolution ----------------------------- *)
\* mutant of TopByInfamy: the tied tribes are ordered by identifier only
TopByInfamy_idOnly(S, ts) ==
  CHOOSE x \in S : \A y \in S \ {x} : idRank[x] < idRank[y]

\* winnerMeta.sort((a, b) => b.infamy - a.infamy || a.tribeId.localeCompare(b.tribeId))[0]
TopByInfamy(S, ts) ==
  CHOOSE x \in S : \A y \in S \ {x} :
    \/ ts[x].infamy > ts[y].infamy
    \/ ts[x].infamy = ts[y].infamy /\ idRank[x] < idRank[y]

\* mutant of TopRanked: the ranking ignores the persuasion score
TopRanked_noScore(S, sc, ts) ==
  CHOOSE x \in S : \A y \in S \ {x} :
    \/ ts[x].infamy > ts[y].infamy
    \/ ts[x].infamy = ts[y].infamy /\ idRank[x] < idRank[y]

\* ranked.sort(persuasionScore desc, infamy desc, tribeId asc)[0]
TopRanked(S, sc, ts) ==
  CHOOSE x \in S : \A y \in S \ {x} :
    \/ sc[x].persuasionScore > sc[y].persuasionScore
    \/ sc[x].persuasionScore = sc[y].persuasionScore /\ ts[x].infamy > ts[y].infamy
    \/ sc[x].persuasionScore = sc[y].persuasionScore /\ ts[x].infamy = ts[y].infamy
       /\ idRank[x] < idRank[y]

\* mutant of pickWinner: a forced winner is never taken
pickWinner_ignoresForced(tids, computed, forced, ts) ==
  LET P == Seq2Set(tids)
      vwo == computed.winningOption
      ch == computed.tribeChoices
      sc == computed.tribeScores
      eligible == {t \in P : vwo # None /\ ch[t] = vwo}
      best == CHOOSE b \in {sc[t].persuasionScore : t \in eligible} :
                \A t \in eligible : sc[t].persuasionScore <= b
      winners == {t \in eligible : sc[t].persuasionScore = best}
  IN IF eligible # {}
     THEN [winnerTribeId |-> TopByInfamy(winners, ts), winningOption |-> vwo]
     ELSE IF P = {}
     THEN [winnerTribeId |-> None, winningOption |-> vwo]
     ELSE LET w == TopRanked(P, sc, ts)
          IN [winnerTribeId |-> w,
              winningOption |-> IF ch[w] # None THEN ch[w] ELSE vwo]

\* mutant of pickWinner: no tribe is ranked when none is eligible
pickWinner_noFallback(tids, computed, forced, ts) ==
  LET P == Seq2Set(tids)
      vwo == computed.winningOption
      ch == computed.tribeChoices
      sc == computed.tribeScores
      eligible == {t \in P : vwo # None /\ ch[t] = vwo}
      best == CHOOSE b \in {sc[t].persuasionScore : t \in eligible} :
                \A t \in eligible : sc[t].persuasionScore <= b
      winners == {t \in eligible : sc[t].persuasionScore = best}
  IN IF forced # None /\ forced \in P
     THEN [winnerTribeId |-> forced,
           winningOption |-> IF ch[forced] # None THEN ch[forced] ELSE vwo]
     ELSE IF eligible # {}
     THEN [winnerTribeId |-> TopByInfamy(winners, ts), winningOption |-> vwo]
     ELSE [winnerTribeId |-> None, winningOption |-> vwo]

\* mutant of pickWinner: the vote-computed winning option is kept on every path
pickWinner_voteOption(tids, computed, forced, ts) ==
  LET P == Seq2Set(tids)
      vwo == computed.winningOption
      ch == computed.tribeChoices
      sc == computed.tribeScores
      eligible == {t \in P : vwo # None /\ ch[t] = vwo}
      best == CHOOSE b \in {sc[t].persuasionScore : t \in eligible} :
                \A t \in eligible : sc[t].persuasionScore <= b
      winners == {t \in eligible : sc[t].persuasionScore = best}
  IN IF forced # None /\ forced \in P
     THEN [winnerTribeId |-> forced, winningOption |-> vwo]
     ELSE IF eligible # {}
     THEN [winnerTribeId |-> TopByInfamy(winners, ts), winningOption |-> vwo]
     ELSE IF P = {}
     THEN [winnerTribeId |-> None, winningOption |-> vwo]
     ELSE [winnerTribeId |-> TopRanked(P, sc, ts), winningOption |-> vwo]

\* the winner and the effective winning option (applyInfamy, first half)
pickWinner(tids, computed, forced, ts) ==
  LET P == Seq2Set(tids)
      vwo == computed.winningOption
      ch == computed.tribeChoices
      sc == computed.tribeScores
      eligible == {t \in P : vwo # None /\ ch[t] = vwo}
      best == CHOOSE b \in {sc[t].persuasionScore : t \in eligible} :
                \A t \in eligible : sc[t].persuasionScore <= b
      winners == {t \in eligible : sc[t].persuasionScore = best}
  IN IF forced # None /\ forced \in P
     THEN [winnerTribeId |-> forced,
           winningOption |-> IF ch[forced] # None THEN ch[forced] ELSE vwo]
     ELSE IF eligible # {}
     THEN [winnerTribeId |-> TopByInfamy(winners, ts), winningOption |-> vwo]
     ELSE IF P = {}
     THEN [winnerTribeId |-> None, winningOption |-> vwo]
     ELSE LET w == TopRanked(P, sc, ts)
          IN [winnerTribeId |-> w,
              winningOption |-> IF ch[w] # None THEN ch[w] ELSE vwo]

\* mutant of onWinningSide: the win goes to the designated winner
onWinningSide_winner(computed, pw, t) == pw.winnerTribeId = t

\* one tribe's line of tribeResults (applyInfamy, loop body)
onWinningSide(computed, pw, t) ==
  pw.winningOption # None /\ computed.tribeChoices[t] = pw.winningOption

\* mutant of deltaInfamy: every tribe on the winning side gets the winner's bonus
deltaInfamy_bonusAll(computed, pw, t) ==
  LET isWinner == pw.winnerTribeId = t
      base == IF pw.winningOption # None
              THEN (IF onWinningSide(computed, pw, t) THEN 6 ELSE -6)
              ELSE (IF isWinner THEN 2 ELSE -2)
      bonus == IF isWinner \/ onWinningSide(computed, pw, t) THEN 8 ELSE 0
  IN base + bonus + computed.tribeScores[t].persuasionScore

deltaInfamy(computed, pw, t) ==
  LET isWinner == pw.winnerTribeId = t
      base == IF pw.winningOption # None
              THEN (IF onWinningSide(computed, pw, t) THEN 6 ELSE -6)
              ELSE (IF isWinner THEN 2 ELSE -2)
      bonus == IF isWinner THEN 8 ELSE 0
  IN base + bonus + computed.tribeScores[t].persuasionScore

\* the deltas d in -60..199 for which 7d/20 is a half and the double d * 0.35
\* (0.35 is the double just below 7/20) is the double just below that half:
\* 90 * 0.35 = 31.499999999999996, 170 * 0.35 = 59.49999999999999
BelowHalf == {90, 170}

\* Math.round(deltaInfamy * 0.35): the integer nearest to the double product,
\* halves toward +Infinity
roundDelta(d) == IF d \in BelowHalf THEN (7 * d + 10) \div 20 - 1 ELSE (7 * d + 10) \div 20

\* the loop of applyInfamy over joust.tribeIds, from position i: the tribe's
\* delta, then the delta of each of its current members
RECURSIVE applyLoop(_, _, _, _, _, _)
applyLoop(tids, i, computed, pw, ms, st) ==
  IF i > Len(tids) THEN st
  ELSE LET t == tids[i]
           d == deltaInfamy(computed, pw, t)
           won == onWinningSide(computed, pw, t)
           mem == listTribeMemberIds(ms, t)
       IN applyLoop(tids, i + 1, computed, pw, ms,
            [tribes |-> [st.tribes EXCEPT ![t] = applyDelta(@, d, won)],
             agents |-> [a \in Agents |->
                          IF a \in mem THEN applyDelta(st.agents[a], roundDelta(d), won)
                          ELSE st.agents[a]]])

applyInfamy(tids, computed, forced, ts, as, ms) ==
  LET pw == pickWinner(tids, computed, forced, ts)
      after == applyLoop(tids, 1, computed, pw, ms, [tribes |-> ts, agents |-> as])
  IN [winnerTribeId |-> pw.winnerTribeId,
      winningOption |-> pw.winningOption,
      voteTotals |-> computed.totals,
      tribeResults |-> [t \in Seq2Set(tids) |->
         [choice |-> computed.tribeChoices[t],
          neutralVotes |-> computed.tribeScores[t].neutralVotes,
          snitchVotes |-> computed.tribeScores[t].snitchVotes,
          outsideVotes |-> computed.tribeScores[t].outsideVotes,
          persuasionScore |-> computed.tribeScores[t].persuasionScore,
          deltaInfamy |-> deltaInfamy(computed, pw, t)]],
      tribes |-> after.tribes,
      agents |-> after.agents]

(* --------------------------- decision strategy ------------------------- *)
\* what the external analysis may do: fail (transport error, non-2xx,
\* unparsable JSON) or name a winner id, which may be no tribe of the contest
AiReplies == {"throw", "t1", "t2", "t3", "bogus"}

\* heuristicAnalyzeJoust(joust).winnerTribeId: the persisted winner, else the
\* first tribe of the persisted tribeResults with the highest persuasion score
heuristicWinner(tids, res) ==
  IF res = {} THEN None
  ELSE LET r == CHOOSE x \in res : TRUE
           top == CHOOSE i \in 1..Len(tids) :
                    /\ \A j \in 1..Len(tids) :
                         r.tribeResults[tids[j]].persuasionScore
                           <= r.tribeResults[tids[i]].persuasionScore
                    /\ \A j \in 1..(i - 1) :
                         r.tribeResults[tids[j]].persuasionScore
                           < r.tribeResults[tids[i]].persuasionScore
       IN IF r.winnerTribeId # None THEN r.winnerTribeId
          ELSE IF Len(tids) = 0 THEN None ELSE tids[top]

\* mutant of decideWinnerTribe: a failed analysis is not flagged as a fallback
decideWinnerTribe_failUnflagged(tids, res, mode, key, ai) ==
  LET fallback == heuristicWinner(tids, res)
  IN IF mode # "ai"
     THEN [winnerTribeId |-> None,
           decision |-> [mode |-> "rules", source |-> "vote+persuasion", fallback |-> FALSE]]
     ELSE IF ~key
     THEN [winnerTribeId |-> fallback,
           decision |-> [mode |-> "ai", source |-> "heuristic-fallback", fallback |-> TRUE]]
     ELSE [winnerTribeId |-> IF ai \in Seq2Set(tids) THEN ai ELSE fallback,
           decision |-> [mode |-> "ai", source |-> "openai", fallback |-> FALSE]]

\* mutant of decideWinnerTribe: the key is not looked at
decideWinnerTribe_noKeyCheck(tids, res, mode, key, ai) ==
  LET fallback == heuristicWinner(tids, res)
  IN IF mode # "ai"
     THEN [winnerTribeId |-> None,
           decision |-> [mode |-> "rules", source |-> "vote+persuasion", fallback |-> FALSE]]
     ELSE IF ai = "throw"
     THEN [winnerTribeId |-> fallback,
           decision |-> [mode |-> "ai", source |-> "heuristic-fallback", fallback |-> TRUE]]
     ELSE [winnerTribeId |-> IF ai \in Seq2Set(tids) THEN ai ELSE fallback,
           decision |-> [mode |-> "ai", source |-> "openai", fallback |-> FALSE]]

decideWinnerTribe(tids, res, mode, key, ai) ==
  LET fallback == heuristicWinner(tids, res)
  IN IF mode # "ai"
     THEN [winnerTribeId |-> None,
           decision |-> [mode |-> "rules", source |-> "vote+persuasion", fallback |-> FALSE]]
     ELSE IF ~key
     THEN [winnerTribeId |-> fallback,
           decision |-> [mode |-> "ai", source |-> "heuristic-fallback", fallback |-> TRUE]]
     ELSE IF ai = "throw"
     THEN [winnerTribeId |-> fallback,
           decision |-> [mode |-> "ai", source |-> "heuristic-fallback", fallback |-> TRUE]]
     ELSE [winnerTribeId |-> IF ai \in Seq2Set(tids) THEN ai ELSE fallback,
           decision |-> [mode |-> "ai", source |-> "openai", fallback |-> FALSE]]

(* -------------------------------- conquest ----------------------------- *)
\* the loop of migrateParticipantsToWinner over joust.tribeIds, from position i
RECURSIVE migrateLoop(_, _, _, _)
migrateLoop(tids, i, w, st) ==
  IF i > Len(tids) THEN st
  ELSE IF tids[i] = w THEN migrateLoop(tids, i + 1, w, st)
  ELSE LET memberIds == listTribeMemberIds(st.members, tids[i])
           moved == memberIds \ st.winnerMembers
       IN migrateLoop(tids, i + 1, w,
            [members |-> {m \in st.members : m[2] \notin moved} \cup {<<w, a>> : a \in moved},
             winnerMembers |-> st.winnerMembers \cup moved,
             movedAgents |-> st.movedAgents + Cardinality(moved),
             movedFromTribes |-> IF moved # {}
                                 THEN Append(st.movedFromTribes,
                                        [tribeId |-> tids[i], movedCount |-> Cardinality(moved)])
                                 ELSE st.movedFromTribes])

\* mutant of migrateParticipantsToWinner: the leaders of the other tribes stay
migrateParticipantsToWinner_keepsLeaders(tids, w, ms) ==
  IF w = None
  THEN [migration |-> [winnerTribeId |-> None, movedAgents |-> 0, movedFromTribes |-> <<>>],
        members |-> ms]
  ELSE LET st == migrateLoop(tids, 1, w,
                   [members |-> ms, winnerMembers |-> listTribeMemberIds(ms, w),
                    movedAgents |-> 0, movedFromTribes |-> <<>>])
           kept == {m \in ms : m[1] \in Seq2Set(tids) \ {w} /\ m[2] = leaderAgentId[m[1]]}
       IN [migration |-> [winnerTribeId |-> w, movedAgents |-> st.movedAgents,
                          movedFromTribes |-> st.movedFromTribes],
           members |-> {m \in st.members : \A k \in kept : m[2] # k[2]} \cup kept]

\* mutant of migrateParticipantsToWinner: a winner is reported and nobody moves
migrateParticipantsToWinner_none(tids, w, ms) ==
  [migration |-> [winnerTribeId |-> w, movedAgents |-> 0, movedFromTribes |-> <<>>],
   members |-> ms]

migrateParticipantsToWinner(tids, w, ms) ==
  IF w = None
  THEN [migration |-> [winnerTribeId |-> None, movedAgents |-> 0, movedFromTribes |-> <<>>],
        members |-> ms]
  ELSE LET st == migrateLoop(tids, 1, w,
                   [members |-> ms, winnerMembers |-> listTribeMemberIds(ms, w),
                    movedAgents |-> 0, movedFromTribes |-> <<>>])
       IN [migration |-> [winnerTribeId |-> w, movedAgents |-> st.movedAgents,
                          movedFromTribes |-> st.movedFromTribes],
           members |-> st.members]

(* ------------------------------- callbacks ----------------------------- *)
\* replies of a tribe leader to a round-1 prompt that callAgent returns
\* (a callAgent that throws is the action RoundThrow): the message is
\* missing, empty, short with or without the token, short with a link, one
\* character too long, or too long with a link behind the cap
R1Replies ==
  {[has |-> FALSE, message |-> EmptyText],
   [has |-> TRUE, message |-> EmptyText],
   [has |-> TRUE, message |-> Text(30 + TokenLen + 1, 0, 1)],
   [has |-> TRUE, message |-> Text(30, 0, 0)],
   [has |-> TRUE, message |-> Text(30, 10, 1)],
   [has |-> TRUE, message |-> Text(R1MaxChars + 1, 0, 0)],
   [has |-> TRUE, message |-> Text(R1MaxChars + 10, R1MaxChars + 5, 0)]}

\* replies to a round-2 prompt: a choice field and a pitch (short, empty,
\* short with a link), or with choice A a pitch that is missing, one
\* character too long, or too long with a link behind the cap
R2Choices == {"A", "B", "b", "X", "missing"}
R2Replies ==
  {[has |-> TRUE, message |-> m, choice |-> c] :
     c \in R2Choices, m \in {EmptyText, Text(30, 0, 0), Text(30, 10, 0)}}
  \cup {[has |-> FALSE, message |-> EmptyText, choice |-> "A"],
        [has |-> TRUE, message |-> Text(R2MaxChars + 1, 0, 0), choice |-> "A"],
        [has |-> TRUE, message |-> Text(R2MaxChars + 10, R2MaxChars + 5, 0), choice |-> "A"]}

\* replies to a vote prompt: the vote field
VoteReplies == {"A", "b", "missing"}

\* String(x || '').toUpperCase()
toUpperCase(c) == CASE c = "a" -> "A" [] c = "b" -> "B" [] c = "missing" -> "" [] OTHER -> c

\* out?.message || ''
messageOf(out) == IF out.has THEN out.message ELSE EmptyText

\* the round-1 post recorded for a reply (stepJoust, round1 branch)
round1Post(out, agentId) ==
  LET msg == clampText(messageOf(out), R1MaxChars)
  IN IF msg.len = 0 \/ hasLink(msg)
     THEN [message |-> R1Forfeit, choice |-> None, agentId |-> agentId]
     ELSE [message |-> IF includesToken(msg) THEN msg ELSE prefixToken(msg),
           choice |-> None, agentId |-> agentId]

\* the round-2 post recorded for a reply (stepJoust, round2 branch)
round2Post(out, agentId) ==
  LET msg == clampText(messageOf(out), R2MaxChars)
      choiceRaw == toUpperCase(out.choice)
      choice == IF choiceRaw = "A" \/ choiceRaw = "B" THEN choiceRaw ELSE None
  IN IF msg.len = 0 \/ choice = None \/ hasLink(msg)
     THEN [message |-> R2Forfeit, choice |-> None, agentId |-> agentId]
     ELSE [message |-> msg, choice |-> choice, agentId |-> agentId]

\* db.addTribeMember: INSERT ... ON CONFLICT (tribe_id, agent_id) DO NOTHING
addTribeMember(ms, t, a) == ms \cup {<<t, a>>}

(* --------------------------- the advance request ----------------------- *)
NoCall == [pc |-> "idle", snap |-> None, idx |-> 0, votesSnap |-> [a \in {} |-> None],
           cbs |-> {}, wrote |-> {}, threw |-> {}]

\* a callback issued by a step: its payload type, round, tribe and agent, and
\* what callAgent did (threw, or the reply it returned)
Callback(type, round, tribe, agent, threw, out) ==
  [type |-> type, round |-> round, tribe |-> tribe, agent |-> agent, threw |-> threw,
   out |-> out]
NoReply == [has |-> FALSE]
NoCb == Callback(None, None, None, None, FALSE, NoReply)

StateIndex(s) == CHOOSE i \in 1..Len(States) : States[i] = s
\* mutant of NextState: round1 goes straight to vote
NextState_skip(s) == IF s = "round1" THEN "vote" ELSE States[StateIndex(s) + 1]
NextState(s) == States[StateIndex(s) + 1]

\* the response of POST /api/joust/:id/step: 200 with the state then read, or
\* the catch-all's 500; swallowed: whether a vote callback of the request threw
Response(status, c, st) ==
  [status |-> status, from |-> c.snap, state |-> st, swallowed |-> c.threw # {}]

TribeOrders == {<<"t1", "t2">>, <<"t2", "t1">>}

\* the tribes of POST /api/dev/seed: infamy 40, 55, 33
seedInfamy == [t \in Tribes |-> CASE t = "t1" -> 40 [] t = "t2" -> 55 [] OTHER -> 33]

Init ==
  /\ joustState = "draft"
  /\ tribeIds \in TribeOrders
  /\ posts = [k \in {} |-> None]
  /\ votes = [a \in {} |-> None]
  /\ results = {}
  /\ tribes = [t \in Tribes |-> [infamy |-> seedInfamy[t], wins |-> 0, losses |-> 0]]
  /\ agents = [a \in Agents |-> [infamy |-> 100, wins |-> 0, losses |-> 0]]
  /\ \E home \in {None, "t2"} :
       members = {<<t, leaderAgentId[t]>> : t \in Tribes}
                   \cup (IF home = None THEN {} ELSE {<<home, "a4">>})
  /\ voterScope = "arena"
  /\ deciderMode = "rules"
  /\ apiKey = FALSE
  /\ call = NoCall
  /\ other = NoCall
  /\ ret = Response(None, NoCall, "draft")
  /\ lastCb = NoCb
  /\ hist = [nOk |-> 0, nErr |-> 0, nDone |-> 0, resultWrites |-> 0,
             postWrites |-> [k \in Rounds \X Tribes |-> 0],
             infamy0 |-> seedInfamy]

\* mutant of AdvanceDone: a done contest is treated as one in state vote and
\* its deltas are applied again
AdvanceDone_again ==
  /\ call.pc = "idle"
  /\ joustState = "done"
  /\ hist.nDone < MaxDoneCalls
  /\ tribes' = [t \in Tribes |->
                  IF t \in Seq2Set(tribeIds) /\ results # {}
                  THEN [tribes[t] EXCEPT !.infamy =
                          @ + (CHOOSE r \in results : TRUE).tribeResults[t].deltaInfamy]
                  ELSE tribes[t]]
  /\ ret' = [status |-> "ok", from |-> joustState, state |-> joustState, swallowed |-> FALSE]
  /\ lastCb' = lastCb
  /\ hist' = [hist EXCEPT !.nOk = @ + 1, !.nDone = @ + 1]
  /\ UNCHANGED <<joustState, tribeIds, posts, votes, results, agents, members, config, other, call>>

\* stepJoust on a contest read in state done: returns at once
AdvanceDone ==
  /\ call.pc = "idle"
  /\ joustState = "done"
  /\ hist.nDone < MaxDoneCalls
  /\ ret' = Response("ok", [NoCall EXCEPT !.snap = joustState], joustState)
  /\ lastCb' = NoCb
  /\ hist' = [hist EXCEPT !.nOk = @ + 1, !.nDone = @ + 1]
  /\ UNCHANGED <<store, config, other, call>>

\* stepJoust on a contest read in state draft: updateJoustState(round1)
AdvanceDraft ==
  /\ call.pc = "idle"
  /\ joustState = "draft"
  /\ joustState' = "round1"
  /\ ret' = Response("ok", [NoCall EXCEPT !.snap = joustState], joustState')
  /\ lastCb' = NoCb
  /\ hist' = [hist EXCEPT !.nOk = @ + 1]
  /\ UNCHANGED <<tribeIds, posts, votes, results, tribes, agents, members, config, other, call>>

\* the handler reads the contest in round1 or round2 and enters the loop
BeginRound ==
  /\ call.pc = "idle"
  /\ joustState \in Rounds
  /\ call' = [NoCall EXCEPT !.pc = "round", !.snap = joustState, !.idx = 1]
  /\ lastCb' = NoCb
  /\ UNCHANGED <<store, config, other, ret, hist>>

\* loop body, a tribe that has its post: continue
RoundSkip ==
  /\ call.pc = "round"
  /\ call.idx <= Len(tribeIds)
  /\ HasPost(posts, call.snap, tribeIds[call.idx])
  /\ call' = [call EXCEPT !.idx = @ + 1]
  /\ lastCb' = NoCb
  /\ UNCHANGED <<store, config, other, ret, hist>>

\* mutant of RoundThrow: the state is advanced although the request fails
RoundThrow_advances ==
  /\ call.pc = "round"
  /\ call.idx <= Len(tribeIds)
  /\ <<call.snap, tribeIds[call.idx]>> \notin DOMAIN posts
  /\ hist.nErr < MaxAborts
  /\ lastCb' = [type |-> "joust_round", round |-> call.snap, tribe |-> tribeIds[call.idx],
                agent |-> leaderAgentId[tribeIds[call.idx]], threw |-> TRUE,
                out |-> [has |-> FALSE]]
  /\ joustState' = States[StateIndex(call.snap) + 1]
  /\ ret' = [status |-> "error", from |-> call.snap, state |-> joustState',
             swallowed |-> FALSE]
  /\ call' = [call EXCEPT !.pc = "idle", !.snap = None, !.idx = 0, !.cbs = {},
                          !.wrote = {}, !.threw = {}]
  /\ hist' = [hist EXCEPT !.nErr = @ + 1]
  /\ UNCHANGED <<tribeIds, posts, votes, results, tribes, agents, members, config, other>>

\* loop body, callAgent throws: the request ends in the catch-all
RoundThrow ==
  /\ call.pc = "round"
  /\ call.idx <= Len(tribeIds)
  /\ ~HasPost(posts, call.snap, tribeIds[call.idx])
  /\ hist.nErr < MaxAborts
  /\ LET t == tribeIds[call.idx]
     IN lastCb' = Callback("joust_round", call.snap, t, leaderAgentId[t], TRUE, NoReply)
  /\ ret' = Response("error", call, joustState)
  /\ call' = NoCall
  /\ hist' = [hist EXCEPT !.nErr = @ + 1]
  /\ UNCHANGED <<store, config, other>>

\* loop body, callAgent returns: the post or the forfeit post is recorded
RoundPost(out) ==
  /\ call.pc = "round"
  /\ call.idx <= Len(tribeIds)
  /\ ~HasPost(posts, call.snap, tribeIds[call.idx])
  /\ LET t == tribeIds[call.idx]
         p == IF call.snap = "round1" THEN round1Post(out, leaderAgentId[t])
              ELSE round2Post(out, leaderAgentId[t])
     IN /\ posts' = upsertRoundPost(posts, call.snap, t, p)
        /\ call' = [call EXCEPT !.idx = @ + 1, !.cbs = @ \cup {t}, !.wrote = @ \cup {t}]
        /\ lastCb' = Callback("joust_round", call.snap, t, leaderAgentId[t], FALSE, out)
        /\ hist' = [hist EXCEPT !.postWrites[<<call.snap, t>>] = @ + 1]
  /\ UNCHANGED <<joustState, tribeIds, votes, results, tribes, agents, members, config, other, ret>>

\* mutant of RoundFinish: the state stays when a tribe of the round forfeited
RoundFinish_stuck ==
  /\ call.pc = "round"
  /\ call.idx > Len(tribeIds)
  /\ joustState' =
       IF \E t \in Seq2Set(tribeIds) : posts[<<call.snap, t>>].message.lit = "forfeit"
       THEN joustState ELSE States[StateIndex(call.snap) + 1]
  /\ ret' = [status |-> "ok", from |-> call.snap, state |-> joustState', swallowed |-> FALSE]
  /\ call' = [call EXCEPT !.pc = "idle", !.snap = None, !.idx = 0, !.cbs = {},
                          !.wrote = {}, !.threw = {}]
  /\ lastCb' = [type |-> None, round |-> None, tribe |-> None, agent |-> None,
                threw |-> FALSE, out |-> [has |-> FALSE]]
  /\ hist' = [hist EXCEPT !.nOk = @ + 1]
  /\ UNCHANGED <<tribeIds, posts, votes, results, tribes, agents, members, config, other>>

\* after the loop: updateJoustState to the state after the one read
RoundFinish ==
  /\ call.pc = "round"
  /\ call.idx > Len(tribeIds)
  /\ joustState' = NextState(call.snap)
  /\ ret' = Response("ok", call, joustState')
  /\ call' = NoCall
  /\ lastCb' = NoCb
  /\ hist' = [hist EXCEPT !.nOk = @ + 1]
  /\ UNCHANGED <<tribeIds, posts, votes, results, tribes, agents, members, config, other>>

\* the handler reads the contest in state vote (its votes with it) and lists the agents
BeginVote ==
  /\ call.pc = "idle"
  /\ joustState = "vote"
  /\ call' = [NoCall EXCEPT !.pc = "vote", !.snap = joustState, !.idx = 1, !.votesSnap = votes]
  /\ lastCb' = NoCb
  /\ UNCHANGED <<store, config, other, ret, hist>>

\* agent.tribeId of db.listAgents
agentTribeId(a) == getAgentTribeId(members, a)

\* the two `continue`s of the vote loop: out of scope, or already voted
skipsVoter(a) ==
  \/ /\ voterScope = "arena"
     /\ agentTribeId(a) # None
     /\ agentTribeId(a) \notin Seq2Set(tribeIds)
  \/ a \in DOMAIN call.votesSnap

VoteSkip ==
  /\ call.pc = "vote"
  /\ call.idx <= Len(listAgents)
  /\ skipsVoter(listAgents[call.idx])
  /\ call' = [call EXCEPT !.idx = @ + 1]
  /\ lastCb' = NoCb
  /\ UNCHANGED <<store, config, other, ret, hist>>

\* mutant of VoteThrow: the exception is not caught and ends the request
VoteThrow_propagates ==
  /\ call.pc = "vote"
  /\ call.idx <= Len(listAgents)
  /\ ~skipsVoter(listAgents[call.idx])
  /\ lastCb' = [type |-> "wyr_vote", round |-> None,
                tribe |-> agentTribeId(listAgents[call.idx]),
                agent |-> listAgents[call.idx], threw |-> TRUE, out |-> [has |-> FALSE]]
  /\ ret' = [status |-> "error", from |-> call.snap, state |-> joustState,
             swallowed |-> FALSE]
  /\ call' = [call EXCEPT !.pc = "idle", !.snap = None, !.idx = 0, !.cbs = {},
                          !.wrote = {}, !.threw = {}, !.votesSnap = [a \in {} |-> None]]
  /\ UNCHANGED <<store, config, other, hist>>

\* callAgent throws (transport error, timeout, non-2xx): caught and ignored
VoteThrow ==
  /\ call.pc = "vote"
  /\ call.idx <= Len(listAgents)
  /\ ~skipsVoter(listAgents[call.idx])
  /\ LET a == listAgents[call.idx]
     IN /\ call' = [call EXCEPT !.idx = @ + 1, !.cbs = @ \cup {a}, !.threw = @ \cup {a}]
        /\ lastCb' = Callback("wyr_vote", None, agentTribeId(a), a, TRUE, NoReply)
  /\ UNCHANGED <<store, config, other, ret, hist>>

\* callAgent returns: the vote is recorded if it is A or B
VoteReply(out) ==
  /\ call.pc = "vote"
  /\ call.idx <= Len(listAgents)
  /\ ~skipsVoter(listAgents[call.idx])
  /\ LET a == listAgents[call.idx]
         v == toUpperCase(out)
     IN /\ votes' = IF v = "A" \/ v = "B" THEN upsertVote(votes, a, v) ELSE votes
        /\ call' = [call EXCEPT !.idx = @ + 1, !.cbs = @ \cup {a},
                                !.wrote = IF v = "A" \/ v = "B" THEN @ \cup {a} ELSE @]
        /\ lastCb' = Callback("wyr_vote", None, agentTribeId(a), a, FALSE,
                              [has |-> TRUE, vote |-> out])
  /\ UNCHANGED <<joustState, tribeIds, posts, results, tribes, agents, members, config, other,
                 ret, hist>>

\* after the vote loop: getJoust, computePersuasion, decideWinnerTribe,
\* applyInfamy, migrateParticipantsToWinner
resolve(tids, ps, vs, res, ts, as, ms, mode, key, ai) ==
  LET computed == computePersuasion(tids, ps, vs, ms)
      winnerDecision == decideWinnerTribe(tids, res, mode, key, ai)
      applied == applyInfamy(tids, computed, winnerDecision.winnerTribeId, ts, as, ms)
      migrated == migrateParticipantsToWinner(tids, applied.winnerTribeId, ms)
  IN [results |-> [winnerTribeId |-> applied.winnerTribeId,
                   tribeResults |-> applied.tribeResults,
                   winningOption |-> applied.winningOption,
                   voteTotals |-> applied.voteTotals,
                   decision |-> winnerDecision.decision,
                   migration |-> migrated.migration],
      tribes |-> applied.tribes,
      agents |-> applied.agents,
      members |-> migrated.members]

\* mutant of completeJoust: the state is set and the results are not stored
completeJoust_stateOnly(r) ==
  /\ joustState' = "done"
  /\ results' = results

\* db.completeJoust(id, 'done', results): state and results_json in one UPDATE
completeJoust(r) ==
  /\ joustState' = "done"
  /\ results' = {r}

\* the fetch of openAiAnalyzeJoust, made in ai mode with a key: it fails, or
\* its reply names a winner id; no call is made otherwise
analysisCall(ai) ==
  IF ai = None THEN NoCb
  ELSE Callback("analysis", None, None, None, ai = "throw",
                IF ai = "throw" THEN NoReply ELSE [has |-> TRUE, winnerTribeId |-> ai])

Resolve(ai) ==
  /\ call.pc = "vote"
  /\ call.idx > Len(listAgents)
  /\ LET out == resolve(tribeIds, posts, votes, results, tribes, agents, members,
                        deciderMode, apiKey, ai)
     IN /\ tribes' = out.tribes
        /\ agents' = out.agents
        /\ members' = out.members
        /\ completeJoust(out.results)
  /\ ret' = Response("ok", call, "done")
  /\ call' = NoCall
  /\ lastCb' = analysisCall(ai)
  /\ hist' = [hist EXCEPT !.nOk = @ + 1, !.resultWrites = @ + 1]
  /\ UNCHANGED <<tribeIds, posts, votes, config, other>>

Next ==
  \/ AdvanceDone
  \/ AdvanceDraft
  \/ BeginRound
  \/ RoundSkip
  \/ RoundThrow
  \/ \E out \in (IF call.snap = "round1" THEN R1Replies ELSE R2Replies) : RoundPost(out)
  \/ RoundFinish
  \/ BeginVote
  \/ VoteSkip
  \/ VoteThrow
  \/ \E out \in VoteReplies : VoteReply(out)
  \/ \E ai \in (IF deciderMode = "ai" /\ apiKey THEN AiReplies ELSE {None}) : Resolve(ai)

\* advance requests served one at a time
Spec == Init /\ [][Next]_vars

(* ================================ claims ================================ *)
Res == CHOOSE r \in results : TRUE
Participants == Seq2Set(tribeIds)
ReturnedOk == hist'.nOk = hist.nOk + 1
RoundCallbackThrew == lastCb'.type = "joust_round" /\ lastCb'.threw
VoteCallbackThrew == lastCb'.type = "wyr_vote" /\ lastCb'.threw

\* C1: an advance request that returns without error on a contest that is not
\* done moves the stored state exactly one step along draft, round1, round2,
\* vote, done; no step of any request skips a state or moves it backward, and
\* the state moves only when a request returns without error.
C1_OneStepForward ==
  [][ /\ StateIndex(joustState') - StateIndex(joustState) \in {0, 1}
      /\ (ReturnedOk /\ ret'.from # "done") =>
           /\ joustState = ret'.from
           /\ StateIndex(joustState') = StateIndex(joustState) + 1
           /\ ret'.state = joustState'
      /\ ~ReturnedOk => joustState' = joustState ]_vars

C1_Witness ==
  /\ ret.status = "ok" /\ ret.from = "round2" /\ joustState = "vote"
  /\ hist.nErr > 0

\* C2: a tribe that has a recorded post for a round is not called back again
\* for that round, and its post is written once and never changed, retries
\* after an aborted request included.
C2_PostOnce ==
  [][ \A r \in Rounds, t \in Tribes :
        /\ hist'.postWrites[<<r, t>>] <= 1
        /\ <<r, t>> \in DOMAIN posts =>
             /\ <<r, t>> \in DOMAIN posts'
             /\ posts'[<<r, t>>] = posts[<<r, t>>]
             /\ hist'.postWrites[<<r, t>>] = hist.postWrites[<<r, t>>]
             /\ ~(lastCb'.type = "joust_round" /\ lastCb'.round = r /\ lastCb'.tribe = t) ]_vars

\* a retry after an abort has passed the first tribe without calling it
C2_Witness ==
  /\ hist.nErr > 0
  /\ call.pc = "round" /\ call.idx = 2 /\ call.cbs = {}
  /\ <<call.snap, tribeIds[1]>> \in DOMAIN posts

\* C3: when a leader's callback throws during round1 or round2, the request
\* ends with the error, the stored state is the one read, the posts recorded
\* in the request for earlier tribes stay stored, and no later tribe was called.
C3_AbortKeepsPosts ==
  [][ RoundCallbackThrew =>
        /\ call.pc = "round" /\ call.snap \in Rounds
        /\ ret'.status = "error" /\ call'.pc = "idle"
        /\ hist'.nErr = hist.nErr + 1 /\ hist'.nOk = hist.nOk
        /\ joustState' = joustState /\ joustState = call.snap /\ ret'.state = call.snap
        /\ posts' = posts
        /\ \A t \in call.wrote : <<call.snap, t>> \in DOMAIN posts'
        /\ lastCb'.tribe = tribeIds[call.idx]
        /\ \A i \in 1..Len(tribeIds) :
             /\ i < call.idx => <<call.snap, tribeIds[i]>> \in DOMAIN posts'
             /\ i > call.idx => tribeIds[i] \notin call.cbs
             /\ i >= call.idx => tribeIds[i] \notin call.wrote ]_vars

\* the first abort of a behaviour, by the second tribe, after the first tribe's post
C3_Witness ==
  /\ ret.status = "error" /\ call.pc = "idle" /\ hist.nErr = 1
  /\ lastCb.threw /\ lastCb.tribe = tribeIds[2]
  /\ joustState = ret.from
  /\ <<ret.from, tribeIds[1]>> \in DOMAIN posts
  /\ <<ret.from, tribeIds[2]>> \notin DOMAIN posts

\* C4: in the vote phase a callback that throws is swallowed: no vote is
\* recorded for that agent, the poll goes on with the next agent, and the
\* request ends only by resolving the contest: it returns without error with
\* the contest done, every agent in scope polled, no vote of an agent whose
\* callback threw.
C4_VoteThrowSwallowed ==
  [][ /\ VoteCallbackThrew =>
           /\ votes' = votes /\ lastCb'.agent \notin DOMAIN votes'
           /\ call'.pc = "vote" /\ call'.idx = call.idx + 1
           /\ lastCb'.agent \in call'.threw
           /\ joustState' = joustState /\ ret' = ret
      /\ (call.pc = "vote" /\ call'.pc # "vote") =>
           /\ ret'.status = "ok" /\ ret'.swallowed = (call.threw # {})
           /\ joustState' = "done" /\ results' # {}
           /\ \A a \in call.threw : a \notin DOMAIN votes'
           /\ \A i \in 1..Len(listAgents) :
                ~skipsVoter(listAgents[i]) => listAgents[i] \in call.cbs ]_vars

C4_Witness ==
  /\ joustState = "done" /\ ret.status = "ok" /\ ret.from = "vote" /\ ret.swallowed
  /\ "a4" \notin DOMAIN votes /\ "a1" \in DOMAIN votes

\* C5: an advance request on a done contest issues no callback and changes
\* nothing stored: state, posts, votes, results, tribes, agents, memberships.
C5_DoneNoEffect ==
  [][ joustState = "done" => (store' = store /\ lastCb' = NoCb) ]_vars

C5_Witness ==
  /\ joustState = "done" /\ ret.status = "ok" /\ ret.from = "done" /\ hist.nDone > 0

\* C6: once the contest is done, every participating tribe's stored infamy is
\* its pre-contest infamy plus the deltaInfamy recorded for it in the results,
\* however many requests were made (aborted ones, and ones after done).
C6_InfamyOnce ==
  joustState = "done" =>
    /\ results # {}
    /\ \A t \in Participants :
         tribes[t].infamy = hist.infamy0[t] + Res.tribeResults[t].deltaInfamy

C6_Witness ==
  /\ joustState = "done" /\ results # {} /\ hist.nErr > 0 /\ hist.nDone > 0
  /\ \E t \in Participants : Res.tribeResults[t].deltaInfamy > 0
  /\ \E t \in Participants : Res.tribeResults[t].deltaInfamy < 0

\* C7: the contest has a results record exactly when its state is done, and
\* the record is written once.
C7_ResultsIffDone ==
  /\ (results # {}) <=> (joustState = "done")
  /\ Cardinality(results) <= 1
  /\ hist.resultWrites = (IF joustState = "done" THEN 1 ELSE 0)

C7_Witness ==
  /\ joustState = "done" /\ results # {} /\ hist.resultWrites = 1 /\ hist.nDone > 0

\* C8: from draft, when no round callback throws, the contest is done exactly
\* when four requests have returned, whatever the participants replied.
C8_FourCalls ==
  hist.nErr = 0 =>
    /\ (joustState = "done") <=> (hist.nOk >= 4)
    /\ hist.nOk - hist.nDone = StateIndex(joustState) - 1

\* done after four requests, with a forfeit in each round and a vote callback that threw
C8_Witness ==
  /\ joustState = "done" /\ hist.nErr = 0 /\ hist.nOk = 4 /\ ret.swallowed
  /\ \E t \in Participants : posts[<<"round1", t>>].message = R1Forfeit
  /\ \E t \in Participants : posts[<<"round2", t>>].message = R2Forfeit

\* C9: a round-1 reply whose message is missing, empty or contains a URL-like
\* substring is recorded as the forfeit post "<token> (forfeit)".
C9_Round1Forfeit ==
  (/\ lastCb.type = "joust_round" /\ lastCb.round = "round1" /\ ~lastCb.threw
   /\ (~lastCb.out.has \/ lastCb.out.message.len = 0 \/ lastCb.out.message.link > 0))
  => posts[<<"round1", lastCb.tribe>>].message = R1Forfeit

\* C10: a reply that is too long (round 1 over 240 characters, round 2 over
\* 420) is recorded as a forfeit post, not as an accepted message.
C10_TooLongForfeits ==
  (/\ lastCb.type = "joust_round" /\ ~lastCb.threw /\ lastCb.out.has
   /\ lastCb.out.message.len >
        (IF lastCb.round = "round1" THEN R1MaxChars ELSE R2MaxChars))
  => posts[<<lastCb.round, lastCb.tribe>>].message.lit = "forfeit"

\* C11: every recorded round-2 post is an accepted post with a choice in
\* {A, B} and a non-empty link-free pitch, or the forfeit post with no choice;
\* a non-throwing reply is accepted exactly when its message is non-empty and
\* link-free and its choice is A or B, and yields the forfeit post otherwise.
C11_Round2PostShape ==
  /\ \A t \in Tribes : <<"round2", t>> \in DOMAIN posts =>
       LET p == posts[<<"round2", t>>]
       IN \/ /\ p.message.lit = "reply" /\ p.message.len > 0 /\ p.message.link = 0
             /\ p.choice \in {"A", "B"}
          \/ p.message = R2Forfeit /\ p.choice = None
  /\ (lastCb.type = "joust_round" /\ lastCb.round = "round2" /\ ~lastCb.threw) =>
       LET out == lastCb.out
           valid == /\ out.has /\ out.message.len > 0 /\ out.message.link = 0
                    /\ toUpperCase(out.choice) \in {"A", "B"}
           p == posts[<<"round2", lastCb.tribe>>]
       IN IF valid
          THEN p.message.lit = "reply" /\ p.choice = toUpperCase(out.choice)
          ELSE p.message = R2Forfeit /\ p.choice = None

(* ------------------------- resolution on its own ----------------------- *)
\* contests of two and of three tribes (POST /api/joust/create takes 2..12)
ScoreOrders == {<<"t2", "t1">>, <<"t1", "t2", "t3">>}

\* infamy of the first two tribes before the contest: lower, equal, higher
ScoreInfamies == {<<40, 55>>, <<55, 55>>, <<55, 40>>}

\* the vote request at the end of its polling loop: every participating tribe
\* has its two posts (round 2 accepted with a choice, or forfeited), any set
\* of agents has a recorded vote, and the fourth agent is in a tribe or in none
ScoreInit ==
  /\ joustState = "vote"
  /\ tribeIds \in ScoreOrders
  /\ \E ch \in [Seq2Set(tribeIds) -> {"A", "B", "missing"}] :
       posts = [k \in Rounds \X Seq2Set(tribeIds) |->
                  IF k[1] = "round1"
                  THEN round1Post([has |-> TRUE, message |-> Text(30, 0, 0)],
                                  leaderAgentId[k[2]])
                  ELSE round2Post([has |-> TRUE, message |-> Text(30, 0, 0),
                                   choice |-> ch[k[2]]], leaderAgentId[k[2]])]
  /\ \E V \in SUBSET Agents : votes \in [V -> {"A", "B"}]
  /\ results = {}
  /\ \E inf \in ScoreInfamies :
       tribes = [t \in Tribes |->
                   [infamy |-> CASE t = "t1" -> inf[1] [] t = "t2" -> inf[2] [] OTHER -> 55,
                    wins |-> 0, losses |-> 0]]
  /\ agents = [a \in Agents |-> [infamy |-> 100, wins |-> 0, losses |-> 0]]
  /\ \E home \in {None, "t2"} :
       members = {<<t, leaderAgentId[t]>> : t \in Tribes}
                   \cup (IF home = None THEN {} ELSE {<<home, "a4">>})
  /\ voterScope = "all"
  /\ \E cfg \in {<<"rules", FALSE>>, <<"ai", TRUE>>} :
       deciderMode = cfg[1] /\ apiKey = cfg[2]
  /\ call = [NoCall EXCEPT !.pc = "vote", !.snap = "vote", !.idx = Len(listAgents) + 1,
                           !.cbs = Agents, !.wrote = DOMAIN votes]
  /\ other = NoCall
  /\ ret = Response("ok", [NoCall EXCEPT !.snap = "round2"], "vote")
  /\ lastCb = NoCb
  /\ hist = [nOk |-> 3, nErr |-> 0, nDone |-> 0, resultWrites |-> 0,
             postWrites |-> [k \in Rounds \X Tribes |->
                               IF k[2] \in Seq2Set(tribeIds) THEN 1 ELSE 0],
             infamy0 |-> [t \in Tribes |-> tribes[t].infamy]]

ScoreNext ==
  \E ai \in (IF deciderMode = "ai" /\ apiKey THEN AiReplies ELSE {None}) : Resolve(ai)

\* the resolution of a contest, from every end of the vote phase
ScoreSpec == ScoreInit /\ [][ScoreNext]_vars

(* ------------------------- claims on the resolution -------------------- *)
VotesFor(o) == Cardinality({a \in DOMAIN votes : votes[a] = o})
VoteWinningOption ==
  IF VotesFor("A") > VotesFor("B") THEN "A"
  ELSE IF VotesFor("B") > VotesFor("A") THEN "B" ELSE None
Computed == computePersuasion(tribeIds, posts, votes, members)

\* C12: for every vote set the computed totals are the numbers of recorded A
\* and B votes, their sum is the number of recorded votes, the vote-computed
\* winning option is the option with strictly more votes, none when the
\* totals are equal, and the totals are the ones stored in the results.
C12_VoteTotals ==
  /\ Computed.totals = [A |-> VotesFor("A"), B |-> VotesFor("B")]
  /\ Computed.totals.A + Computed.totals.B = Cardinality(DOMAIN votes)
  /\ Computed.winningOption = VoteWinningOption
  /\ joustState = "done" => Res.voteTotals = Computed.totals

\* a resolved contest with one vote for each option
C12_Witness ==
  /\ joustState = "done" /\ results # {}
  /\ Res.voteTotals = [A |-> 1, B |-> 1]
  /\ Computed.winningOption = None

ChoiceOf(t) == IF <<"round2", t>> \in DOMAIN posts THEN posts[<<"round2", t>>].choice ELSE None
TribeOf(a) == IF \E t \in Tribes : <<t, a>> \in members
              THEN CHOOSE t \in Tribes : <<t, a>> \in members ELSE None
VotesOf(S) == [a \in S |-> votes[a]]
ScoreWith(vs, t) == computePersuasion(tribeIds, posts, vs, members).tribeScores[t]

\* C13: for every vote set and participating tribe, neutralVotes counts the
\* votes for the tribe's choice of agents in no tribe, snitchVotes those of
\* agents of another participating tribe that chose the other option, the
\* persuasion score is neutralVotes + 2 * snitchVotes and is not negative, and
\* the votes of the tribe's own members add nothing to its tallies.
C13_PersuasionScore ==
  \A t \in Participants :
    LET s == Computed.tribeScores[t]
        c == ChoiceOf(t)
        cast == {a \in DOMAIN votes : c # None /\ votes[a] = c}
        strangers == {a \in DOMAIN votes : TribeOf(a) # t}
    IN /\ s.neutralVotes = Cardinality({a \in cast : TribeOf(a) = None})
       /\ s.snitchVotes =
            Cardinality({a \in cast : /\ TribeOf(a) \in Participants \ {t}
                                      /\ ChoiceOf(TribeOf(a)) \notin {None, c}})
       /\ s.persuasionScore = s.neutralVotes + 2 * s.snitchVotes
       /\ s.persuasionScore >= 0
       /\ s.outsideVotes = Cardinality(cast \cap strangers)
       /\ ScoreWith(VotesOf(strangers), t) = s
       /\ joustState = "done" =>
            /\ Res.tribeResults[t].persuasionScore =
                 Res.tribeResults[t].neutralVotes + 2 * Res.tribeResults[t].snitchVotes
            /\ Res.tribeResults[t].persuasionScore >= 0

\* a resolved contest where a tribe has a neutral and a snitch vote, and its
\* own leader voted for its choice too
C13_Witness ==
  /\ joustState = "done" /\ results # {}
  /\ \E t \in Participants :
       /\ Res.tribeResults[t].neutralVotes = 1 /\ Res.tribeResults[t].snitchVotes = 1
       /\ Res.tribeResults[t].persuasionScore = 3
       /\ leaderAgentId[t] \in DOMAIN votes
       /\ votes[leaderAgentId[t]] = Res.tribeResults[t].choice

\* C14: a vote adds to a tribe's tallies only if it names the tribe's
\* recorded round-2 choice, and a tribe with no recorded choice has
\* neutralVotes = snitchVotes = outsideVotes = persuasionScore = 0.
C14_TallyNeedsChoice ==
  \A t \in Participants :
    LET s == Computed.tribeScores[t]
        c == ChoiceOf(t)
        cast == {a \in DOMAIN votes : votes[a] = c}
    IN /\ c = None =>
            s = [neutralVotes |-> 0, snitchVotes |-> 0, outsideVotes |-> 0,
                 persuasionScore |-> 0]
       /\ ScoreWith(VotesOf(cast), t) = s
       /\ s.neutralVotes <= Cardinality(cast) /\ s.snitchVotes <= Cardinality(cast)
       /\ s.outsideVotes <= Cardinality(cast)
       /\ (joustState = "done" /\ Res.tribeResults[t].choice = None) =>
            /\ Res.tribeResults[t].neutralVotes = 0 /\ Res.tribeResults[t].snitchVotes = 0
            /\ Res.tribeResults[t].outsideVotes = 0
            /\ Res.tribeResults[t].persuasionScore = 0

\* a resolved contest with votes for both options, a tribe that forfeited
\* round 2 and a tribe that has outside votes
C14_Witness ==
  /\ joustState = "done" /\ results # {}
  /\ Res.voteTotals.A > 0 /\ Res.voteTotals.B > 0
  /\ \E t \in Participants : Res.tribeResults[t].choice = None
  /\ \E u \in Participants : Res.tribeResults[u].outsideVotes > 1

Resolving == joustState = "vote" /\ joustState' = "done"
NewRes == CHOOSE r \in results' : TRUE
\* x ranks before y: persuasion score, then infamy before the contest, then identifier
RanksBefore(r, x, y) ==
  LET sx == r.tribeResults[x].persuasionScore
      sy == r.tribeResults[y].persuasionScore
  IN \/ sx > sy
     \/ sx = sy /\ tribes[x].infamy > tribes[y].infamy
     \/ sx = sy /\ tribes[x].infamy = tribes[y].infamy /\ idRank[x] < idRank[y]
Eligible == {t \in Participants : VoteWinningOption # None /\ ChoiceOf(t) = VoteWinningOption}

\* C15: with no forced winner (rules mode) and at least one eligible tribe (a
\* tribe whose recorded choice is the vote-computed winning option), the
\* designated winner is an eligible tribe, and it ranks before every other
\* eligible tribe by persuasion score, then infamy before the contest, then
\* smaller identifier.
C15_EligibleWinner ==
  [][ (Resolving /\ deciderMode = "rules" /\ Eligible # {}) =>
        /\ results' # {}
        /\ NewRes.winnerTribeId \in Eligible
        /\ \A y \in Eligible \ {NewRes.winnerTribeId} :
             RanksBefore(NewRes, NewRes.winnerTribeId, y)
        /\ NewRes.winningOption = VoteWinningOption ]_vars

\* two eligible tribes with the same persuasion score, and the one with the
\* higher infamy and the larger identifier is the winner
C15_Witness ==
  /\ joustState = "done" /\ results # {} /\ Res.decision.mode = "rules"
  /\ Res.voteTotals.A > Res.voteTotals.B
  /\ Res.tribeResults["t1"].choice = "A" /\ Res.tribeResults["t2"].choice = "A"
  /\ Res.tribeResults["t1"].persuasionScore = Res.tribeResults["t2"].persuasionScore
  /\ hist.infamy0["t2"] > hist.infamy0["t1"]
  /\ Res.winnerTribeId = "t2"

\* C16: with no forced winner (rules mode), when the votes tie or no tribe's
\* recorded choice is the vote-computed winning option, the contest is
\* resolved all the same and the designated winner is the first of all
\* participating tribes by persuasion score, then infamy before the contest,
\* then smaller identifier.
C16_RankAllFallback ==
  [][ (Resolving /\ deciderMode = "rules" /\ Eligible = {}) =>
        /\ results' # {}
        /\ NewRes.winnerTribeId \in Participants
        /\ \A y \in Participants \ {NewRes.winnerTribeId} :
             RanksBefore(NewRes, NewRes.winnerTribeId, y) ]_vars

\* a one-to-one tie resolved for a tribe that leads on persuasion score
\* against a tribe of higher infamy
C16_Witness ==
  /\ joustState = "done" /\ results # {} /\ Res.decision.mode = "rules"
  /\ Res.voteTotals = [A |-> 1, B |-> 1]
  /\ \E w \in Participants, y \in Participants :
       /\ Res.winnerTribeId = w
       /\ Res.tribeResults[w].persuasionScore > Res.tribeResults[y].persuasionScore
       /\ hist.infamy0[y] > hist.infamy0[w]

\* T1 chose A, T2 chose B, and the recorded votes are an A of an agent in no
\* tribe (a4, whom no conquest moves) and an A of T2's leader; no forced winner
Scenario17 ==
  /\ Participants = {"t1", "t2"}
  /\ ChoiceOf("t1") = "A" /\ ChoiceOf("t2") = "B"
  /\ votes = [a \in {"a2", "a4"} |-> "A"]
  /\ hist.infamy0 = [t \in Tribes |-> IF t = "t1" THEN 40 ELSE 55]
  /\ Res.decision.mode = "rules"
  /\ TribeOf("a4") = None

\* C17: in the results every participating tribe's deltaInfamy is base +
\* winnerBonus + persuasionScore: winnerBonus 8 for the designated winner and
\* 0 for the others, base +6 when the tribe's recorded choice is the winning
\* option of the results and -6 when it is not (+2 / -2 for winner / others
\* when the results have no winning option). In the scenario T1 has
\* persuasion 3 and delta 17, T2 has delta -6.
C17_DeltaInfamy ==
  joustState = "done" =>
    /\ results # {}
    /\ \A t \in Participants :
         LET tr == Res.tribeResults[t]
             isWinner == Res.winnerTribeId = t
             base == IF Res.winningOption # None
                     THEN (IF tr.choice = Res.winningOption THEN 6 ELSE -6)
                     ELSE (IF isWinner THEN 2 ELSE -2)
         IN tr.deltaInfamy = base + (IF isWinner THEN 8 ELSE 0) + tr.persuasionScore
    /\ Scenario17 =>
         /\ Res.tribeResults["t1"].persuasionScore = 3
         /\ Res.tribeResults["t1"].deltaInfamy = 17
         /\ Res.tribeResults["t2"].deltaInfamy = -6
         /\ Res.winnerTribeId = "t1"

C17_Witness ==
  /\ joustState = "done" /\ results # {} /\ Scenario17
  /\ tribes["t1"].infamy = 40 + 17 /\ tribes["t2"].infamy = 55 - 6

VotesTied == VotesFor("A") = VotesFor("B")

\* C18: when the recorded votes tie and no winner is forced (rules mode), the
\* winning option stored in the results is none, whatever the designated
\* winner chose.
C18_TieNoWinningOption ==
  (joustState = "done" /\ results # {} /\ Res.decision.mode = "rules" /\ VotesTied)
    => Res.winningOption = None

\* C19: when the recorded votes tie and no winner is forced (rules mode), the
\* designated winner's deltaInfamy is 2 + 8 + persuasionScore and every other
\* participating tribe's is -2 + persuasionScore.
C19_TieBase ==
  (joustState = "done" /\ results # {} /\ Res.decision.mode = "rules" /\ VotesTied)
    => \A t \in Participants :
         Res.tribeResults[t].deltaInfamy =
           (IF Res.winnerTribeId = t THEN 10 ELSE -2) + Res.tribeResults[t].persuasionScore

\* C20: a forced winner that is one of the contest's tribes is the designated
\* winner whatever the votes and scores, and the effective winning option is
\* that tribe's recorded choice, or the vote-computed option if it has none;
\* a forced winner that is no tribe of the contest changes nothing: the
\* outcome is the one without forced winner.
C20_ForcedWinner ==
  \A f \in Tribes \cup {"bogus"} :
    LET pw == pickWinner(tribeIds, Computed, f, tribes)
    IN IF f \in Participants
       THEN /\ pw.winnerTribeId = f
            /\ pw.winningOption =
                 (IF ChoiceOf(f) # None THEN ChoiceOf(f) ELSE VoteWinningOption)
       ELSE pw = pickWinner(tribeIds, Computed, None, tribes)

\* a contest resolved by the external analysis for a tribe that chose the
\* option with fewer votes, against a tribe that chose the option with more
C20_Witness ==
  /\ joustState = "done" /\ results # {}
  /\ Res.decision.mode = "ai" /\ Res.decision.source = "openai"
  /\ Res.voteTotals.A > Res.voteTotals.B
  /\ Res.tribeResults[Res.winnerTribeId].choice = "B"
  /\ Res.winningOption = "B"
  /\ \E t \in Participants : Res.tribeResults[t].choice = "A"

(* --------------------- the decision strategy on its own ---------------- *)
\* decider mode and presence of the key: every setting of the two
DeciderConfigs == {<<"rules", FALSE>>, <<"rules", TRUE>>, <<"ai", FALSE>>, <<"ai", TRUE>>}

\* the vote request at the end of its polling loop, under every decider
\* setting: contests of two and three tribes, every round-2 choice, votes of
\* the second tribe's leader and of an agent in no tribe
DecideInit ==
  /\ joustState = "vote"
  /\ tribeIds \in ScoreOrders
  /\ \E ch \in [Seq2Set(tribeIds) -> {"A", "B", "missing"}] :
       posts = [k \in Rounds \X Seq2Set(tribeIds) |->
                  IF k[1] = "round1"
                  THEN round1Post([has |-> TRUE, message |-> Text(30, 0, 0)],
                                  leaderAgentId[k[2]])
                  ELSE round2Post([has |-> TRUE, message |-> Text(30, 0, 0),
                                   choice |-> ch[k[2]]], leaderAgentId[k[2]])]
  /\ \E V \in SUBSET {"a2", "a4"} : votes \in [V -> {"A", "B"}]
  /\ results = {}
  /\ tribes = [t \in Tribes |-> [infamy |-> seedInfamy[t], wins |-> 0, losses |-> 0]]
  /\ agents = [a \in Agents |-> [infamy |-> 100, wins |-> 0, losses |-> 0]]
  /\ members = {<<t, leaderAgentId[t]>> : t \in Tribes}
  /\ voterScope = "all"
  /\ \E cfg \in DeciderConfigs : deciderMode = cfg[1] /\ apiKey = cfg[2]
  /\ call = [NoCall EXCEPT !.pc = "vote", !.snap = "vote", !.idx = Len(listAgents) + 1,
                           !.cbs = Agents, !.wrote = DOMAIN votes]
  /\ other = NoCall
  /\ ret = Response("ok", [NoCall EXCEPT !.snap = "round2"], "vote")
  /\ lastCb = NoCb
  /\ hist = [nOk |-> 3, nErr |-> 0, nDone |-> 0, resultWrites |-> 0,
             postWrites |-> [k \in Rounds \X Tribes |->
                               IF k[2] \in Seq2Set(tribeIds) THEN 1 ELSE 0],
             infamy0 |-> seedInfamy]

DecideNext ==
  \E ai \in (IF deciderMode = "ai" /\ apiKey THEN AiReplies ELSE {None}) : Resolve(ai)

DecideSpec == DecideInit /\ [][DecideNext]_vars

(* ----------------------- claims on the decision strategy --------------- *)
\* the winner designated when the heuristic's winner is passed on as forced
\* winner (before the results exist the heuristic names no winner)
HeuristicOutcome ==
  pickWinner(tribeIds, Computed, heuristicWinner(tribeIds, results), tribes).winnerTribeId
FallbackDecision == [mode |-> "ai", source |-> "heuristic-fallback", fallback |-> TRUE]

\* C21: in ai mode with a key, a failed analysis call is caught: the request
\* returns without error with the contest done, the stored decision is the
\* heuristic fallback with fallback = TRUE, and the winner is the one
\* designated from the heuristic's result.
C21_AnalysisFailureCaught ==
  [][ (lastCb'.type = "analysis" /\ lastCb'.threw) =>
        /\ joustState = "vote" /\ deciderMode = "ai" /\ apiKey
        /\ joustState' = "done" /\ results' # {}
        /\ ret'.status = "ok" /\ hist'.nErr = hist.nErr
        /\ NewRes.decision = FallbackDecision
        /\ NewRes.winnerTribeId = HeuristicOutcome ]_vars

C21_Witness ==
  /\ joustState = "done" /\ results # {} /\ ret.status = "ok"
  /\ lastCb.type = "analysis" /\ lastCb.threw
  /\ Res.decision.fallback /\ Res.winnerTribeId \in Participants

\* C22: in ai mode, when the analysis returns a winner id that is no tribe of
\* the contest, the heuristic's winner is substituted and the decision stored
\* in the results has fallback = TRUE.
C22_InvalidWinnerFlagged ==
  [][ (/\ lastCb'.type = "analysis" /\ ~lastCb'.threw
       /\ lastCb'.out.winnerTribeId \notin Participants) =>
        /\ joustState' = "done" /\ results' # {}
        /\ NewRes.winnerTribeId = HeuristicOutcome
        /\ NewRes.decision.fallback = TRUE ]_vars

\* C23: in ai mode without a key no analysis call is made, the request does
\* not fail, and the decision is the heuristic fallback (mode ai, fallback =
\* TRUE) with the heuristic's winner; in rules mode no call is made, no
\* winner is forced and fallback = FALSE.
C23_NoKeyAndRules ==
  [][ Resolving =>
        /\ (deciderMode = "ai" /\ ~apiKey) =>
             /\ lastCb' = NoCb /\ ret'.status = "ok" /\ results' # {}
             /\ NewRes.decision = FallbackDecision
             /\ NewRes.winnerTribeId = HeuristicOutcome
        /\ deciderMode = "rules" =>
             /\ lastCb' = NoCb /\ ret'.status = "ok" /\ results' # {}
             /\ NewRes.decision =
                  [mode |-> "rules", source |-> "vote+persuasion", fallback |-> FALSE]
             /\ NewRes.winnerTribeId = pickWinner(tribeIds, Computed, None, tribes).winnerTribeId
             /\ \A k \in BOOLEAN, x \in AiReplies \cup {None} :
                  decideWinnerTribe(tribeIds, results, "rules", k, x).winnerTribeId = None ]_vars

C23_Witness ==
  /\ joustState = "done" /\ results # {} /\ ret.status = "ok"
  /\ deciderMode = "ai" /\ ~apiKey /\ lastCb = NoCb
  /\ Res.decision = FallbackDecision /\ Res.winnerTribeId \in Participants

(* ---------------------------- conquest on its own ---------------------- *)
\* the vote request at the end of its polling loop, for every placement of
\* the four agents (each in one tribe or in none: earlier conquests move
\* leaders out of their tribes), in rules mode and in ai mode with a key
ConquestInit ==
  /\ joustState = "vote"
  /\ tribeIds \in ScoreOrders
  /\ posts = [k \in Rounds \X Seq2Set(tribeIds) |->
                IF k[1] = "round1"
                THEN round1Post([has |-> TRUE, message |-> Text(30, 0, 0)],
                                leaderAgentId[k[2]])
                ELSE round2Post([has |-> TRUE, message |-> Text(30, 0, 0),
                                 choice |-> "A"], leaderAgentId[k[2]])]
  /\ votes = [a \in {} |-> None]
  /\ results = {}
  /\ tribes = [t \in Tribes |-> [infamy |-> seedInfamy[t], wins |-> 0, losses |-> 0]]
  /\ agents = [a \in Agents |-> [infamy |-> 100, wins |-> 0, losses |-> 0]]
  /\ \E home \in [Agents -> Tribes \cup {None}] :
       members = {<<home[a], a>> : a \in {x \in Agents : home[x] # None}}
  /\ voterScope = "all"
  /\ \E cfg \in {<<"rules", FALSE>>, <<"ai", TRUE>>} :
       deciderMode = cfg[1] /\ apiKey = cfg[2]
  /\ call = [NoCall EXCEPT !.pc = "vote", !.snap = "vote", !.idx = Len(listAgents) + 1,
                           !.cbs = Agents]
  /\ other = NoCall
  /\ ret = Response("ok", [NoCall EXCEPT !.snap = "round2"], "vote")
  /\ lastCb = NoCb
  /\ hist = [nOk |-> 3, nErr |-> 0, nDone |-> 0, resultWrites |-> 0,
             postWrites |-> [k \in Rounds \X Tribes |->
                               IF k[2] \in Seq2Set(tribeIds) THEN 1 ELSE 0],
             infamy0 |-> seedInfamy]

ConquestNext ==
  \E ai \in (IF deciderMode = "ai" /\ apiKey THEN AiReplies ELSE {None}) : Resolve(ai)

ConquestSpec == ConquestInit /\ [][ConquestNext]_vars

MembersOf(t) == {a \in Agents : <<t, a>> \in members}
RECURSIVE SumCounts(_)
SumCounts(q) == IF q = <<>> THEN 0 ELSE Head(q).movedCount + SumCounts(Tail(q))

\* C24: when a contest completes with designated winner W, every agent that
\* was a member of another participating tribe is a member of W and of no
\* other tribe, every other agent's memberships are as before, movedAgents is
\* the number of agents moved and the sum of the movedFromTribes counts, and
\* movedFromTribes has one entry for each other participating tribe that had
\* members, with its member count before the conquest.
C24_Conquest ==
  [][ Resolving =>
        LET W == NewRes.winnerTribeId
            losers == Participants \ {W}
            conquered == UNION {MembersOf(t) : t \in losers}
            mig == NewRes.migration
        IN /\ W \in Participants /\ mig.winnerTribeId = W
           /\ \A a \in conquered : {t \in Tribes : <<t, a>> \in members'} = {W}
           /\ \A a \in Agents \ conquered :
                {t \in Tribes : <<t, a>> \in members'} = {t \in Tribes : <<t, a>> \in members}
           /\ mig.movedAgents = Cardinality(conquered)
           /\ SumCounts(mig.movedFromTribes) = mig.movedAgents
           /\ \A i \in DOMAIN mig.movedFromTribes :
                /\ mig.movedFromTribes[i].tribeId \in losers
                /\ mig.movedFromTribes[i].movedCount =
                     Cardinality(MembersOf(mig.movedFromTribes[i].tribeId))
                /\ \A j \in DOMAIN mig.movedFromTribes :
                     i # j => mig.movedFromTribes[i].tribeId # mig.movedFromTribes[j].tribeId
           /\ \A t \in losers :
                MembersOf(t) # {} =>
                  \E i \in DOMAIN mig.movedFromTribes : mig.movedFromTribes[i].tribeId = t ]_vars

\* T1 has beaten T2 and T3, which had two members each: four agents moved,
\* two from T2 and two from T3
C24_Witness ==
  /\ joustState = "done" /\ results # {}
  /\ Res.winnerTribeId = "t1"
  /\ Res.migration.movedAgents = 4
  /\ Res.migration.movedFromTribes =
       <<[tribeId |-> "t2", movedCount |-> 2], [tribeId |-> "t3", movedCount |-> 2]>>
  /\ MembersOf("t1") = Agents

(* ------------------- tribes, members and contests ---------------------- *)
\* the tribes table is the domain of `tribes`; the contest tracked is the one
\* created last (a finished contest is only read)

\* POST /api/tribes/create by the agent that leads tribe t: 400 when the
\* leader is already in a tribe; createTribe inserts the tribe with infamy 0
\* and the leader's membership in one transaction
CreateTribe(t) ==
  /\ call.pc = "idle"
  /\ t \notin DOMAIN tribes
  /\ getAgentTribeId(members, leaderAgentId[t]) = None
  /\ tribes' = [x \in DOMAIN tribes \cup {t} |->
                  IF x = t THEN [infamy |-> 0, wins |-> 0, losses |-> 0] ELSE tribes[x]]
  /\ members' = addTribeMember(members, t, leaderAgentId[t])
  /\ UNCHANGED <<joustState, tribeIds, posts, votes, results, agents, config, other,
                 call, ret, lastCb, hist>>

\* POST /api/tribes/add-member: 404 for an unknown tribe, 403 when the
\* tribe's settings reject the agent, 400 when the agent is in a tribe
AddMember(t, a, eligible) ==
  /\ call.pc = "idle"
  /\ t \in DOMAIN tribes
  /\ eligible
  /\ getAgentTribeId(members, a) = None
  /\ members' = addTribeMember(members, t, a)
  /\ UNCHANGED <<joustState, tribeIds, posts, votes, results, tribes, agents, config,
                 other, call, ret, lastCb, hist>>

\* tribeIds of POST /api/joust/create: two or three known tribes (tribes that
\* are not known are dropped from the request; one listing for each set)
JoustOrders ==
  {q \in {<<"t1", "t2">>, <<"t3", "t1">>, <<"t2", "t3">>, <<"t1", "t2", "t3">>} :
     Seq2Set(q) \subseteq DOMAIN tribes}

\* POST /api/joust/create once the previous contest is done: a draft contest
CreateJoust(tids) ==
  /\ call.pc = "idle"
  /\ joustState = "done"
  /\ hist.jousts < MaxJousts
  /\ joustState' = "draft"
  /\ tribeIds' = tids
  /\ posts' = [k \in {} |-> None]
  /\ votes' = [a \in {} |-> None]
  /\ results' = {}
  /\ ret' = Response(None, NoCall, "draft")
  /\ lastCb' = NoCb
  /\ hist' = [nOk |-> 0, nErr |-> 0, nDone |-> 0, resultWrites |-> 0,
              postWrites |-> [k \in Rounds \X Tribes |-> 0],
              infamy0 |-> hist.infamy0, jousts |-> hist.jousts + 1]
  /\ UNCHANGED <<tribes, agents, members, config, other, call>>

\* after A1 and A2 have created T1 and T2 and a contest between the two was
\* created: T3 does not exist, A3 and A4 are in no tribe
MemberInit ==
  /\ joustState = "draft"
  /\ tribeIds = <<"t1", "t2">>
  /\ posts = [k \in {} |-> None]
  /\ votes = [a \in {} |-> None]
  /\ results = {}
  /\ tribes = [t \in {"t1", "t2"} |-> [infamy |-> 0, wins |-> 0, losses |-> 0]]
  /\ agents = [a \in Agents |-> [infamy |-> 100, wins |-> 0, losses |-> 0]]
  /\ members = {<<"t1", "a1">>, <<"t2", "a2">>}
  /\ voterScope = "arena"
  /\ deciderMode = "rules"
  /\ apiKey = FALSE
  /\ call = NoCall
  /\ other = NoCall
  /\ ret = Response(None, NoCall, "draft")
  /\ lastCb = NoCb
  /\ hist = [nOk |-> 0, nErr |-> 0, nDone |-> 0, resultWrites |-> 0,
             postWrites |-> [k \in Rounds \X Tribes |-> 0],
             infamy0 |-> [t \in Tribes |-> 0], jousts |-> 1]

\* replies of the leaders and voters in this specification
MemberR1Replies == {[has |-> TRUE, message |-> Text(30, 0, 0)]}
MemberR2Replies == {[has |-> TRUE, message |-> Text(30, 0, 0), choice |-> c] : c \in {"A", "B"}}

MemberNext ==
  \/ \E t \in Tribes : CreateTribe(t)
  \/ \E t \in Tribes, a \in Agents, eligible \in BOOLEAN : AddMember(t, a, eligible)
  \/ \E tids \in JoustOrders : CreateJoust(tids)
  \/ AdvanceDone
  \/ AdvanceDraft
  \/ BeginRound
  \/ RoundSkip
  \/ RoundThrow
  \/ \E out \in (IF call.snap = "round1" THEN MemberR1Replies ELSE MemberR2Replies) :
       RoundPost(out)
  \/ RoundFinish
  \/ BeginVote
  \/ VoteSkip
  \/ VoteReply("A")
  \/ Resolve(None)

\* tribe creations, add-member requests and advances served one at a time
MemberSpec == MemberInit /\ [][MemberNext]_vars

\* C25: in every state reachable by serialized tribe creation, add-member
\* requests and contest advances (conquest included), each agent is a member
\* of at most one tribe.
C25_AtMostOneTribe ==
  \A a \in Agents : Cardinality({t \in Tribes : <<t, a>> \in members}) <= 1

\* A4 was added to T2, T1 conquered T2 with its two members, and A3 then
\* created T3
C25_Witness ==
  /\ joustState = "done" /\ results # {}
  /\ Res.winnerTribeId = "t1" /\ Res.migration.movedAgents = 2
  /\ {a \in Agents : <<"t1", a>> \in members} = {"a1", "a2", "a4"}
  /\ "t3" \in DOMAIN tribes /\ <<"t3", "a3">> \in members

(* ------------------------- claims on the voter scope ------------------- *)
\* C27: with the voter scope left at its default (Spec runs the engine with
\* nothing configured), the vote-phase advance polls every known agent that
\* had no recorded vote when the request read the contest, agents of tribes
\* outside the contest included.
C27_DefaultPollsAll ==
  [][ Resolving => (Agents \ DOMAIN call.votesSnap) \subseteq call.cbs ]_vars

(* -------------------- resolution in listed order ----------------------- *)
\* getJoust lists the contest's tribes with no ORDER BY and the votes as the
\* rows come: here the scoring and the designation are computed over the
\* arrays as listed, loop by loop and sort by sort

\* the orders in which the members of S can be listed
Perms(S) ==
  {q \in [1..Cardinality(S) -> S] : \A i, j \in 1..Cardinality(S) : i # j => q[i] # q[j]}

\* Array.prototype.sort (stable) with comparator `before`, a set of pairs
\* <<x, y>> for which the comparator is negative: x is inserted before the
\* first element it must precede
RECURSIVE insertSorted(_, _, _)
insertSorted(x, q, before) ==
  IF q = <<>> THEN <<x>>
  ELSE IF <<x, Head(q)>> \in before
       THEN <<x>> \o q
       ELSE <<Head(q)>> \o insertSorted(x, Tail(q), before)
RECURSIVE sort(_, _)
sort(q, before) ==
  IF q = <<>> THEN <<>>
  ELSE insertSorted(q[Len(q)], sort(SubSeq(q, 1, Len(q) - 1), before), before)

\* the totals loop of computePersuasion over Object.values(votesByAgent)
RECURSIVE countVotes(_, _, _)
countVotes(vs, entries, o) ==
  IF entries = <<>> THEN 0
  ELSE (IF vs[Head(entries)] = o THEN 1 ELSE 0) + countVotes(vs, Tail(entries), o)

\* the scoring loop of computePersuasion over Object.entries(votesByAgent),
\* for tribe t
RECURSIVE scoreVotes(_, _, _, _, _, _)
scoreVotes(ps, ms, tids, t, vs, entries) ==
  IF entries = <<>> THEN [neutralVotes |-> 0, snitchVotes |-> 0, outsideVotes |-> 0]
  ELSE LET one == Tally(ps, ms, tids, t, Head(entries), vs[Head(entries)])
           rest == scoreVotes(ps, ms, tids, t, vs, Tail(entries))
       IN [neutralVotes |-> rest.neutralVotes + (IF one.neutral THEN 1 ELSE 0),
           snitchVotes |-> rest.snitchVotes + (IF one.snitch THEN 1 ELSE 0),
           outsideVotes |-> rest.outsideVotes + (IF one.outside THEN 1 ELSE 0)]

\* computePersuasion over the tribes and the votes as listed
computePersuasionListed(tids, ps, vs, entries, ms) ==
  LET nA == countVotes(vs, entries, "A")
      nB == countVotes(vs, entries, "B")
      score(t) ==
        LET c == scoreVotes(ps, ms, tids, t, vs, entries)
        IN [neutralVotes |-> c.neutralVotes, snitchVotes |-> c.snitchVotes,
            outsideVotes |-> c.outsideVotes,
            persuasionScore |-> c.neutralVotes + 2 * c.snitchVotes]
  IN [totals |-> [A |-> nA, B |-> nB],
      winningOption |-> IF nA = nB THEN None ELSE IF nA > nB THEN "A" ELSE "B",
      tribeChoices |-> [t \in Seq2Set(tids) |-> tribeChoice(ps, t)],
      tribeScores |-> [t \in Seq2Set(tids) |-> score(t)]]

\* (a, b) => b.infamy - a.infamy || a.tribeId.localeCompare(b.tribeId), negative
infamyBefore(ts) ==
  {p \in (DOMAIN ts) \X (DOMAIN ts) :
     \/ ts[p[1]].infamy > ts[p[2]].infamy
     \/ ts[p[1]].infamy = ts[p[2]].infamy /\ idRank[p[1]] < idRank[p[2]]}

\* mutant of rankedBefore: tribes of equal score and infamy compare equal
rankedBefore_noId(sc, ts) ==
  {p \in (DOMAIN sc) \X (DOMAIN sc) :
     \/ sc[p[1]].persuasionScore > sc[p[2]].persuasionScore
     \/ sc[p[1]].persuasionScore = sc[p[2]].persuasionScore
        /\ ts[p[1]].infamy > ts[p[2]].infamy}

\* (a, b) => b.persuasionScore - a.persuasionScore || b.infamy - a.infamy
\*           || a.tribeId.localeCompare(b.tribeId), negative
rankedBefore(sc, ts) ==
  {p \in (DOMAIN sc) \X (DOMAIN sc) :
     \/ sc[p[1]].persuasionScore > sc[p[2]].persuasionScore
     \/ sc[p[1]].persuasionScore = sc[p[2]].persuasionScore
        /\ ts[p[1]].infamy > ts[p[2]].infamy
     \/ sc[p[1]].persuasionScore = sc[p[2]].persuasionScore
        /\ ts[p[1]].infamy = ts[p[2]].infamy /\ idRank[p[1]] < idRank[p[2]]}

\* Math.max(...q.map(score))
RECURSIVE maxScore(_, _)
maxScore(q, sc) ==
  IF Len(q) = 1 THEN sc[q[1]].persuasionScore
  ELSE LET m == maxScore(Tail(q), sc)
       IN IF sc[q[1]].persuasionScore > m THEN sc[q[1]].persuasionScore ELSE m

\* winnerTribeId of applyInfamy, over the tribes as listed: the forced winner,
\* else the eligible tribe of best score (ties sorted), else ranked[0]
designateListed(tids, computed, forced, ts) ==
  LET vwo == computed.winningOption
      ch == computed.tribeChoices
      sc == computed.tribeScores
      IsEligible(t) == vwo # None /\ ch[t] = vwo
      eligible == SelectSeq(tids, IsEligible)
      IsBest(t) == sc[t].persuasionScore = maxScore(eligible, sc)
      winners == SelectSeq(eligible, IsBest)
  IN IF forced # None /\ forced \in Seq2Set(tids) THEN forced
     ELSE IF Len(eligible) > 0
     THEN (IF Len(winners) = 1 THEN winners[1] ELSE sort(winners, infamyBefore(ts))[1])
     ELSE IF tids = <<>> THEN None
     ELSE sort(tids, rankedBefore(sc, ts))[1]

\* the resolution with the tribes read as `tids` and the votes as `entries`;
\* the deltas are applyInfamy's for the winner so designated
resolveListed(tids, entries, ps, vs, res, ts, as, ms, mode, key, ai) ==
  LET computed == computePersuasionListed(tids, ps, vs, entries, ms)
      winnerDecision == decideWinnerTribe(tids, res, mode, key, ai)
      winnerTribeId == designateListed(tids, computed, winnerDecision.winnerTribeId, ts)
      applied == applyInfamy(tids, computed, winnerTribeId, ts, as, ms)
      migrated == migrateParticipantsToWinner(tids, applied.winnerTribeId, ms)
  IN [results |-> [winnerTribeId |-> winnerTribeId,
                   tribeResults |-> applied.tribeResults,
                   winningOption |-> applied.winningOption,
                   voteTotals |-> applied.voteTotals,
                   decision |-> winnerDecision.decision,
                   migration |-> migrated.migration],
      tribes |-> applied.tribes,
      agents |-> applied.agents,
      members |-> migrated.members]

\* the end of the vote request, the contest read with its tribes in the
\* order `tids` and its votes in the order `entries`
ResolveListed(tids, entries, ai) ==
  /\ call.pc = "vote"
  /\ call.idx > Len(listAgents)
  /\ LET out == resolveListed(tids, entries, posts, votes, results, tribes, agents,
                              members, deciderMode, apiKey, ai)
     IN /\ tribes' = out.tribes
        /\ agents' = out.agents
        /\ members' = out.members
        /\ completeJoust(out.results)
  /\ ret' = Response("ok", call, "done")
  /\ call' = NoCall
  /\ lastCb' = analysisCall(ai)
  /\ hist' = [hist EXCEPT !.nOk = @ + 1, !.resultWrites = @ + 1]
  /\ UNCHANGED <<tribeIds, posts, votes, config, other>>

\* infamy of T1, T2, T3 before the contest
ListedInfamies == {<<55, 55, 55>>, <<40, 55, 55>>}

\* the vote request at the end of its polling loop on a contest of three
\* tribes: every round-2 choice, votes of A2 and A4, A4 in T2 or in no
\* tribe, rules mode or ai mode with a key
ListedInit ==
  /\ joustState = "vote"
  /\ tribeIds = <<"t1", "t2", "t3">>
  /\ \E ch \in [Tribes -> {"A", "B", "missing"}] :
       posts = [k \in Rounds \X Tribes |->
                  IF k[1] = "round1"
                  THEN round1Post([has |-> TRUE, message |-> Text(30, 0, 0)],
                                  leaderAgentId[k[2]])
                  ELSE round2Post([has |-> TRUE, message |-> Text(30, 0, 0),
                                   choice |-> ch[k[2]]], leaderAgentId[k[2]])]
  /\ \E V \in SUBSET {"a2", "a4"} : votes \in [V -> {"A", "B"}]
  /\ results = {}
  /\ \E inf \in ListedInfamies :
       tribes = [t \in Tribes |->
                   [infamy |-> CASE t = "t1" -> inf[1] [] t = "t2" -> inf[2] [] OTHER -> inf[3],
                    wins |-> 0, losses |-> 0]]
  /\ agents = [a \in Agents |-> [infamy |-> 100, wins |-> 0, losses |-> 0]]
  /\ \E home \in {None, "t2"} :
       members = {<<t, leaderAgentId[t]>> : t \in Tribes}
                   \cup (IF home = None THEN {} ELSE {<<home, "a4">>})
  /\ voterScope = "all"
  /\ \E cfg \in {<<"rules", FALSE>>, <<"ai", TRUE>>} :
       deciderMode = cfg[1] /\ apiKey = cfg[2]
  /\ call = [NoCall EXCEPT !.pc = "vote", !.snap = "vote", !.idx = Len(listAgents) + 1,
                           !.cbs = Agents, !.wrote = DOMAIN votes]
  /\ other = NoCall
  /\ ret = Response("ok", [NoCall EXCEPT !.snap = "round2"], "vote")
  /\ lastCb = NoCb
  /\ hist = [nOk |-> 3, nErr |-> 0, nDone |-> 0, resultWrites |-> 0,
             postWrites |-> [k \in Rounds \X Tribes |-> 1],
             infamy0 |-> [t \in Tribes |-> tribes[t].infamy]]

ListedNext ==
  \E tids \in Perms(Seq2Set(tribeIds)), entries \in Perms(DOMAIN votes),
     ai \in (IF deciderMode = "ai" /\ apiKey THEN {"throw", "t3", "bogus"} ELSE {None}) :
    ResolveListed(tids, entries, ai)

ListedSpec == ListedInit /\ [][ListedNext]_vars

(* ------------------- claims on the listed-order resolution ------------- *)
\* the reply of the analysis call made by the step, None when none was made
AiOf(cb) == IF cb.type # "analysis" THEN None
            ELSE IF cb.threw THEN "throw" ELSE cb.out.winnerTribeId

\* C28: winner designation is deterministic: for fixed round-2 choices, votes,
\* voter memberships, tribe infamy values and forced winner, the designated
\* winner is one function of these, in whichever order the participating
\* tribes are listed and the votes are enumerated (and so are the vote totals).
C28_WinnerOrderFree ==
  [][ Resolving =>
        LET forced == decideWinnerTribe(tribeIds, results, deciderMode, apiKey,
                                        AiOf(lastCb')).winnerTribeId
        IN /\ NewRes.winnerTribeId =
                pickWinner(tribeIds, Computed, forced, tribes).winnerTribeId
           /\ NewRes.voteTotals = Computed.totals
           /\ \A t \in Participants :
                NewRes.tribeResults[t].persuasionScore =
                  Computed.tribeScores[t].persuasionScore ]_vars

\* three tribes tied on score and infamy, read as T3, T2, T1 (the conquered
\* tribes are reported in the order read): T1 is designated
C28_Witness ==
  /\ joustState = "done" /\ results # {}
  /\ Res.decision.mode = "rules"
  /\ \A t \in Participants : Res.tribeResults[t].persuasionScore = 0
  /\ \A t \in Participants : hist.infamy0[t] = 55
  /\ Res.winnerTribeId = "t1"
  /\ Res.migration.movedFromTribes[1].tribeId = "t3"
  /\ Len(Res.migration.movedFromTribes) = 2

(* ---------------------- overlapping advance requests ------------------- *)
\* the step handler takes no lock: a request suspended at an await (`other`)
\* and the request running (`call`) work on the same contest

\* the event loop runs the other request
Switch ==
  /\ call # other
  /\ call' = other
  /\ other' = call
  /\ UNCHANGED <<store, config, ret, lastCb, hist>>

\* requests begun so far: answered, or in flight
Begun ==
  hist.nOk + hist.nErr + (IF call.pc # "idle" THEN 1 ELSE 0)
                       + (IF other.pc # "idle" THEN 1 ELSE 0)

\* loop body up to the await of callAgent: getRoundPost finds no post and the
\* leader is called
RaceRoundCall ==
  /\ call.pc = "round"
  /\ call.idx <= Len(tribeIds)
  /\ ~HasPost(posts, call.snap, tribeIds[call.idx])
  /\ LET t == tribeIds[call.idx]
     IN /\ lastCb' = Callback("joust_round", call.snap, t, leaderAgentId[t], FALSE, NoReply)
        /\ hist' = [hist EXCEPT !.roundCalls[<<call.snap, t>>] = @ + 1]
  /\ call' = [call EXCEPT !.pc = "await"]
  /\ UNCHANGED <<store, config, other, ret>>

\* callAgent returns to the suspended loop body: the post or the forfeit post
\* is upserted
RaceRoundReply(out) ==
  /\ call.pc = "await"
  /\ LET t == tribeIds[call.idx]
         p == IF call.snap = "round1" THEN round1Post(out, leaderAgentId[t])
              ELSE round2Post(out, leaderAgentId[t])
     IN /\ posts' = upsertRoundPost(posts, call.snap, t, p)
        /\ call' = [call EXCEPT !.pc = "round", !.idx = @ + 1, !.cbs = @ \cup {t},
                                !.wrote = @ \cup {t}]
        /\ lastCb' = Callback("joust_round", call.snap, t, leaderAgentId[t], FALSE, out)
        /\ hist' = [hist EXCEPT !.postWrites[<<call.snap, t>>] = @ + 1]
  /\ UNCHANGED <<joustState, tribeIds, votes, results, tribes, agents, members, config,
                 other, ret>>

\* replies of the leaders in this specification
RaceR1Replies == {[has |-> TRUE, message |-> Text(30, 0, 0)], [has |-> FALSE]}
RaceR2Replies == {[has |-> TRUE, message |-> Text(30, 0, 0), choice |-> c] : c \in {"A", "B"}}

\* a contest of T1 and T2 in round1 with no post, or in round2 with its
\* round-1 posts; A4 is in T2; no request in flight
RaceInit ==
  /\ joustState \in Rounds
  /\ tribeIds = <<"t1", "t2">>
  /\ posts = [k \in (IF joustState = "round1" THEN {} ELSE {"round1"} \X {"t1", "t2"}) |->
                round1Post([has |-> TRUE, message |-> Text(30, 0, 0)], leaderAgentId[k[2]])]
  /\ votes = [a \in {} |-> None]
  /\ results = {}
  /\ tribes = [t \in Tribes |-> [infamy |-> seedInfamy[t], wins |-> 0, losses |-> 0]]
  /\ agents = [a \in Agents |-> [infamy |-> 100, wins |-> 0, losses |-> 0]]
  /\ members = {<<t, leaderAgentId[t]>> : t \in Tribes} \cup {<<"t2", "a4">>}
  /\ voterScope = "arena"
  /\ deciderMode = "rules"
  /\ apiKey = FALSE
  /\ call = NoCall
  /\ other = NoCall
  /\ ret = Response(None, NoCall, joustState)
  /\ lastCb = NoCb
  /\ hist = [nOk |-> 0, nErr |-> 0, nDone |-> 0, resultWrites |-> 0,
             postWrites |-> [k \in Rounds \X Tribes |-> IF k \in DOMAIN posts THEN 1 ELSE 0],
             roundCalls |-> [k \in Rounds \X Tribes |-> IF k \in DOMAIN posts THEN 1 ELSE 0],
             infamy0 |-> seedInfamy]

RaceNext ==
  \/ Switch
  \/ Begun < MaxRaceCalls /\ BeginRound
  \/ Begun < MaxRaceCalls /\ BeginVote
  \/ AdvanceDone
  \/ RoundSkip
  \/ RaceRoundCall
  \/ \E out \in (IF call.snap = "round1" THEN RaceR1Replies ELSE RaceR2Replies) :
       RaceRoundReply(out)
  \/ RoundFinish
  \/ VoteSkip
  \/ VoteReply("A")
  \/ Resolve(None)

\* advance requests that overlap, two at a time
RaceSpec == RaceInit /\ [][RaceNext]_vars

(* ------------------- claims on overlapping requests -------------------- *)
\* C26: two overlapping advance calls on a contest in round1 (or round2), each
\* having read the contest before the other recorded its posts, can both call
\* the same leader for the same round and both write that tribe's post: a
\* post already stored is written again only after its leader was called
\* twice for the round, and the later write replaces the earlier post.
C26_LaterWriteWins ==
  [][ \A k \in Rounds \X Participants :
        (k \in DOMAIN posts /\ hist'.postWrites[k] = hist.postWrites[k] + 1)
          => /\ hist.roundCalls[k] >= 2
             /\ posts'[k] = (IF k[1] = "round1"
                             THEN round1Post(lastCb'.out, leaderAgentId[k[2]])
                             ELSE round2Post(lastCb'.out, leaderAgentId[k[2]])) ]_vars

\* T1's leader was called twice for round1 and T1's round-1 post written
\* twice, and both requests were answered 200
C26_Witness ==
  /\ hist.roundCalls[<<"round1", "t1">>] = 2
  /\ hist.postWrites[<<"round1", "t1">>] = 2
  /\ hist.nOk >= 2
  /\ call.pc = "idle" /\ other.pc = "idle"

\* C29: in every execution, overlapping advance calls included, a contest
\* whose persisted state is done stays done and its results are never
\* rewritten, and the persisted state never moves backward in the order
\* draft, round1, round2, vote, done.
C29_NeverBackward ==
  [][ /\ StateIndex(joustState') >= StateIndex(joustState)
      /\ joustState = "done" => (joustState' = "done" /\ results' = results) ]_vars

\* C30: in every execution, two overlapping advance calls that both read the
\* contest in state vote included, the infamy delta and the win/loss
\* increment of a contest are applied exactly once to each participating
\* tribe and to each member agent.
C30_AppliedOnce ==
  results # {} =>
    /\ \A t \in Participants :
         /\ tribes[t].wins + tribes[t].losses = 1
         /\ tribes[t].infamy = hist.infamy0[t] + Res.tribeResults[t].deltaInfamy
    /\ \A a \in Agents : agents[a].wins + agents[a].losses <= 1

(* --------------------------- retry after aborts ------------------------ *)
\* a round callback throws, as often as it likes: RoundThrow with the count
\* of aborts capped
RetryThrow ==
  /\ call.pc = "round"
  /\ call.idx <= Len(tribeIds)
  /\ ~HasPost(posts, call.snap, tribeIds[call.idx])
  /\ LET t == tribeIds[call.idx]
     IN lastCb' = Callback("joust_round", call.snap, t, leaderAgentId[t], TRUE, NoReply)
  /\ ret' = Response("error", call, joustState)
  /\ call' = NoCall
  /\ hist' = [hist EXCEPT !.nErr = IF @ < MaxAborts THEN @ + 1 ELSE @]
  /\ UNCHANGED <<store, config, other>>

\* a leader's callback returns without throwing
RetryPost ==
  \E out \in (IF call.snap = "round1" THEN RaceR1Replies ELSE RaceR2Replies) : RoundPost(out)

\* the steps of a request other than the resolution
RetrySteps ==
  \/ AdvanceDone
  \/ AdvanceDraft
  \/ BeginRound
  \/ RoundSkip
  \/ RetryThrow
  \/ RetryPost
  \/ RoundFinish
  \/ BeginVote
  \/ VoteSkip
  \/ VoteThrow
  \/ VoteReply("A")

RetryNext ==
  \/ RetrySteps
  \/ Resolve(None)

\* the vote loop of the request is over: Resolve is enabled
ResolveReady == call.pc = "vote" /\ call.idx > Len(listAgents)

\* advance is invoked again and again, one request at a time, and a request
\* runs to its end: weak fairness of the steps, and of the resolution
\* (written out, ResolveReady being ENABLED <<Resolve(None)>>_vars); a
\* leader's callback that is tried again and again eventually returns:
\* strong fairness of RetryPost
RetrySpec ==
  /\ Init /\ [][RetryNext]_vars
  /\ WF_vars(RetrySteps)
  /\ ([]<>(~ResolveReady) \/ []<><<Resolve(None)>>_vars)
  /\ SF_vars(RetryPost)

(* ------------------------------ claims on retry ------------------------ *)
\* C31: retry makes progress: if advance is invoked again and again
\* (serialized) and every leader's callback eventually returns without
\* throwing, the contest eventually reaches done; and a post recorded by an
\* aborted advance call is never lost or replaced by a later retry.
C31_RetryProgress ==
  /\ <>(joustState = "done")
  /\ [][ \A k \in DOMAIN posts : k \in DOMAIN posts' /\ posts'[k] = posts[k] ]_vars

\* the contest is done after a request was aborted with the first tribe's
\* round-1 post already recorded, and every post was written once
C31_Witness ==
  /\ joustState = "done"
  /\ hist.nErr = MaxAborts
  /\ \A k \in Rounds \X Participants : hist.postWrites[k] = 1
  /\ ret.status = "ok"

(* ---------------------- the transfer to member agents ------------------ *)
\* the deltas applyInfamy can compute: base (-6, -2, 2 or 6) plus bonus (0 or
\* 8) plus a persuasion score, which grows with the number of voters
Deltas == -6..MaxDelta

\* the tail of applyInfamy's loop body for tribe t with deltaInfamy d:
\* applyTribeDelta, then applyAgentDelta for each member
ApplyTribeDelta(t, d, won) ==
  /\ joustState = "vote"
  /\ \A x \in Tribes : tribes[x].wins + tribes[x].losses = 0
  /\ tribes' = [tribes EXCEPT ![t] = applyDelta(@, d, won)]
  /\ agents' = [a \in Agents |->
                  IF a \in listTribeMemberIds(members, t)
                  THEN applyDelta(agents[a], roundDelta(d), won) ELSE agents[a]]
  /\ UNCHANGED <<joustState, tribeIds, posts, votes, results, members, config, other,
                 call, ret, lastCb, hist>>

TransferNext ==
  \E t \in Participants, d \in Deltas, won \in BOOLEAN : ApplyTribeDelta(t, d, won)

\* the contest of T2 (A2, A4) and T1 (A1) at the end of its vote phase
TransferInit ==
  /\ ConquestInit
  /\ tribeIds = <<"t2", "t1">>
  /\ members = {<<t, leaderAgentId[t]>> : t \in Tribes} \cup {<<"t2", "a4">>}
  /\ deciderMode = "rules"

\* one tribe's delta applied, for every delta and every tribe of the contest
TransferSpec == TransferInit /\ [][TransferNext]_vars

(* -------------------------- claims on the transfer --------------------- *)
\* 0.35 * d rounded to the nearest integer, halves away from zero
HalfAway(d) == IF d >= 0 THEN (7 * d + 10) \div 20 ELSE -((10 - 7 * d) \div 20)

\* C33: each agent that is a member of a participating tribe at resolution
\* time receives an integer infamy change equal to its tribe's deltaInfamy
\* times 0.35 rounded half away from zero, for every delta the engine can
\* produce, negative deltas included.
C33_HalfAwayFromZero ==
  [][ \A t \in Participants : \A a \in MembersOf(t) :
        agents'[a].infamy - agents[a].infamy
          = HalfAway(tribes'[t].infamy - tribes[t].infamy) ]_vars

(* --------------------- claims on the win/loss counters ----------------- *)
\* the tribe's recorded choice is the effective winning option of the results
OnWinningSide(r, t) == r.winningOption # None /\ r.tribeResults[t].choice = r.winningOption
Bump(row, won) == [wins |-> row.wins + (IF won THEN 1 ELSE 0),
                   losses |-> row.losses + (IF won THEN 0 ELSE 1)]
Counters(row) == [wins |-> row.wins, losses |-> row.losses]

\* C32: for each participating tribe of a completed contest exactly one of
\* its win and loss counters is incremented by 1: wins if and only if the
\* tribe's recorded choice equals the effective winning option (the
\* designated winner records a loss when it is not on the winning side), and
\* every member agent of the tribe at resolution time gets the same
\* increment; the counters of the other tribes and agents do not change.
C32_WinLoss ==
  [][ Resolving =>
        /\ \A t \in Participants :
             /\ Counters(tribes'[t]) = Bump(tribes[t], OnWinningSide(NewRes, t))
             /\ \A a \in MembersOf(t) :
                  Counters(agents'[a]) = Bump(agents[a], OnWinningSide(NewRes, t))
        /\ \A t \in Tribes \ Participants : Counters(tribes'[t]) = Counters(tribes[t])
        /\ \A a \in Agents :
             (\A t \in Participants : a \notin MembersOf(t))
               => Counters(agents'[a]) = Counters(agents[a]) ]_vars

\* the designated winner (forced by the analysis, having forfeited round 2)
\* records a loss, and so does its leader, while another tribe records a win
C32_Witness ==
  /\ joustState = "done" /\ results # {}
  /\ Res.tribeResults[Res.winnerTribeId].choice = None
  /\ tribes[Res.winnerTribeId].losses = 1 /\ tribes[Res.winnerTribeId].wins = 0
  /\ agents[leaderAgentId[Res.winnerTribeId]].losses = 1
  /\ \E t \in Participants : tribes[t].wins = 1 /\ agents[leaderAgentId[t]].wins = 1

(* ------------------------- the entrance round -------------------------- *)
\* round-1 replies within the advertised limit: 240 characters with and
\* without the token, the longest message that still fits behind the prefix,
\* and a short one
EntranceReplies ==
  {[has |-> TRUE, message |-> Text(R1MaxChars, 0, 0)],
   [has |-> TRUE, message |-> Text(R1MaxChars, 0, 1)],
   [has |-> TRUE, message |-> Text(R1MaxChars - TokenLen - 1, 0, 0)],
   [has |-> TRUE, message |-> Text(30, 0, 0)]}

EntranceNext ==
  \/ AdvanceDraft
  \/ BeginRound
  \/ \E out \in (IF call.snap = "round1" THEN EntranceReplies ELSE RaceR2Replies) :
       RoundPost(out)
  \/ RoundFinish

\* the contest from draft to the end of round 2, no callback throwing
EntranceSpec == Init /\ [][EntranceNext]_vars

\* C34: every round-1 post the engine records obeys the advertised round-1
\* rule of at most 240 characters, also when the engine prefixes the
\* required token to a reply that omitted it.
C34_Round1Within240 ==
  \A t \in Participants :
    HasPost(posts, "round1", t) => posts[<<"round1", t>>].message.len <= R1MaxChars

(* ------------- the heuristic fallback under overlapping requests -------- *)
\* two or more vote requests on one contest, in ai mode without a credential:
\* both read the contest in state vote, each polls the voters and resolves
FallbackRaceInit ==
  /\ joustState = "vote"
  /\ tribeIds = <<"t1", "t2">>
  /\ posts = [k \in Rounds \X {"t1", "t2"} |->
                IF k[1] = "round1"
                THEN round1Post([has |-> TRUE, message |-> Text(30, 0, 0)],
                                leaderAgentId[k[2]])
                ELSE round2Post([has |-> TRUE, message |-> Text(30, 0, 0),
                                 choice |-> IF k[2] = "t1" THEN "A" ELSE "B"],
                                leaderAgentId[k[2]])]
  /\ votes = [a \in {} |-> None]
  /\ results = {}
  /\ tribes = [t \in Tribes |-> [infamy |-> seedInfamy[t], wins |-> 0, losses |-> 0]]
  /\ agents = [a \in Agents |-> [infamy |-> 100, wins |-> 0, losses |-> 0]]
  /\ members = {<<t, leaderAgentId[t]>> : t \in Tribes} \cup {<<"t2", "a4">>}
  /\ voterScope = "arena"
  /\ deciderMode = "ai"
  /\ apiKey = FALSE
  /\ call = NoCall
  /\ other = NoCall
  /\ ret = Response("ok", [NoCall EXCEPT !.snap = "round2"], "vote")
  /\ lastCb = NoCb
  /\ hist = [nOk |-> 0, nErr |-> 0, nDone |-> 0, resultWrites |-> 0,
             postWrites |-> [k \in Rounds \X Tribes |-> IF k \in DOMAIN posts THEN 1 ELSE 0],
             roundCalls |-> [k \in Rounds \X Tribes |-> IF k \in DOMAIN posts THEN 1 ELSE 0],
             infamy0 |-> seedInfamy]

FallbackRaceNext ==
  \/ Switch
  \/ Begun < MaxRaceCalls /\ BeginVote
  \/ AdvanceDone
  \/ VoteSkip
  \/ VoteThrow
  \/ \E out \in {"A", "B"} : VoteReply(out)
  \/ Resolve(None)

FallbackRaceSpec == FallbackRaceInit /\ [][FallbackRaceNext]_vars

\* the outcome rules mode produces on the stored posts, votes and infamy
RulesOutcome ==
  resolve(tribeIds, posts, votes, results, tribes, agents, members, "rules", apiKey, None)

\* C35: in ai mode, whenever the vote-phase advance falls back to the
\* heuristic (no credential, or the analysis call failed), the heuristic finds
\* no stored results and names no winner, and the winner and the deltas the
\* advance stores and applies are those rules mode produces on the same posts,
\* votes and infamy.
C35_FallbackAsRules ==
  [][ ( /\ hist'.resultWrites = hist.resultWrites + 1
        /\ deciderMode = "ai"
        /\ NewRes.decision = FallbackDecision )
      => /\ results = {}
         /\ heuristicWinner(tribeIds, results) = None
         /\ NewRes.winnerTribeId = RulesOutcome.results.winnerTribeId
         /\ NewRes.winningOption = RulesOutcome.results.winningOption
         /\ NewRes.tribeResults = RulesOutcome.results.tribeResults
         /\ tribes' = RulesOutcome.tribes
         /\ agents' = RulesOutcome.agents
         /\ members' = RulesOutcome.members ]_vars

\* the tribe an agent belongs to when the contest of RaceInit starts
HomeAtStart(a) ==
  getAgentTribeId({<<t, leaderAgentId[t]>> : t \in Tribes} \cup {<<"t2", "a4">>}, a)

\* C36: the infamy deltas of a contest are applied before any member is
\* transferred: once the contest has results, every agent's infamy has
\* changed once, by the rounded delta of the tribe it belonged to before the
\* conquest (not at all for an agent of no participating tribe), and an agent
\* moved into the winning tribe has not received the winner's delta as well.
C36_DeltaOncePerAgent ==
  results # {} =>
    \A a \in Agents :
      LET t == HomeAtStart(a)
      IN /\ agents[a].infamy =
              100 + (IF t \in Participants
                     THEN roundDelta(Res.tribeResults[t].deltaInfamy) ELSE 0)
         /\ agents[a].wins + agents[a].losses = IF t \in Participants THEN 1 ELSE 0

(* ---------------------- claims on the completed contest ---------------- *)
\* C37: every contest in state done has a designated winner that is one of its
\* participating tribes, also when every tribe forfeited round 2 and no vote
\* was recorded; the conquest of a contest never takes the branch that names
\* no winner and moves nobody.
C37_AlwaysAWinner ==
  joustState = "done" =>
    /\ results # {}
    /\ Res.winnerTribeId \in Participants
    /\ Res.migration.winnerTribeId = Res.winnerTribeId

C37_Witness ==
  /\ joustState = "done" /\ results # {}
  /\ DOMAIN votes = {}
  /\ \A t \in Participants : posts[<<"round2", t>>].choice = None
  /\ Res.winningOption = None
  /\ Res.winnerTribeId \in Participants

C39_LosersLoseLeaders ==
  [][ hist'.resultWrites = hist.resultWrites + 1 =>
        \A t \in Participants \ {NewRes.winnerTribeId} :
          /\ listTribeMemberIds(members', t) = {}
          /\ <<t, leaderAgentId[t]>> \notin members'
          /\ <<t, leaderAgentId[t]>> \in members =>
               getAgentTribeId(members', leaderAgentId[t]) = NewRes.winnerTribeId ]_vars

\* every losing tribe is empty and its leader sits in the winning tribe
C39_Witness ==
  /\ joustState = "done" /\ results # {}
  /\ Cardinality(Participants) = 3
  /\ \A t \in Participants \ {Res.winnerTribeId} :
       /\ MembersOf(t) = {}
       /\ <<Res.winnerTribeId, leaderAgentId[t]>> \in members
  /\ Res.migration.movedAgents = 2

============================================================================
